---- MODULE Spec2Model ----
(***************************************************************************)
(* Memory Scramble boards of the repository:                               *)
(*   "MP"  src/Multiplayer_Game-master/src/board.py                        *)
(*   "MG"  src/MemoryGame/src/board.py                                     *)
(* Both are asyncio programs: a coroutine runs without interruption up to  *)
(* an await that really suspends (event.wait(), a held value lock, the     *)
(* transform).  Every "async with self._lock" block contains no await, so  *)
(* each block is one atomic step of the model and the board lock is free   *)
(* in every state.                                                         *)
(***************************************************************************)
EXTENDS Integers, Sequences, FiniteSets, TLC

\* ---- bounds of the model ------------------------------------------------
MaxRows == 2
MaxCols == 3
NumPlayers == 2
NumCalls == 2
NumContenders == 3
NumWatchers == 2
NumMaps == 2
NumValues == 2

\* ---- values -------------------------------------------------------------
Deck == <<"A", "B", "C", "D", "E", "F">>
Values == {Deck[i] : i \in 1..NumValues}
None == "None"
Nobody == 0
Absent == -1
Free == 0
Players == 1..NumPlayers
Calls == 1..NumCalls
Contenders == 1..NumContenders
Watchers == 1..NumWatchers
Maps == 1..NumMaps

NoMove == [set |-> FALSE, cards |-> <<>>, matched |-> FALSE]
Move(cs, m) == [set |-> TRUE, cards |-> cs, matched |-> m]

VARIABLES variant, rows, columns, script, lk, ctor,
          cards, face_up, controllers, player_cards, previous_moves,
          waiting_players, change_watchers, map_locks, fc, wc, mc

vars == <<variant, rows, columns, script, lk, ctor,
          cards, face_up, controllers, player_cards, previous_moves,
          waiting_players, change_watchers, map_locks, fc, wc, mc>>

\* what no flip, watch or map ever assigns: the kind and size of the board,
\* script, the progress of the caller that plays a test's scenario, lk, what the
\* latest look returned, and ctor, how the latest Board(...) call ended
fixed == <<variant, rows, columns, script, lk, ctor>>

Cells == (0..(rows - 1)) \X (0..(columns - 1))

\* the fields of a Board object that the board lock protects
Board == [cards |-> cards, face_up |-> face_up, controllers |-> controllers,
          player_cards |-> player_cards, previous_moves |-> previous_moves,
          waiting_players |-> waiting_players, change_watchers |-> change_watchers]

\* ---- list helpers -------------------------------------------------------
InSeq(s, x) == \E i \in 1..Len(s) : s[i] = x

\* list.remove(x) guarded by "x in list": drops the first occurrence
RemoveFirst(s, x) ==
    IF InSeq(s, x)
    THEN LET i == CHOOSE j \in 1..Len(s) : s[j] = x /\ \A h \in 1..(j - 1) : s[h] # x
         IN  SubSeq(s, 1, i - 1) \o SubSeq(s, i + 1, Len(s))
    ELSE s

\* 0 <= row < rows and 0 <= column < columns
InBounds(pos) == 0 <= pos[1] /\ pos[1] < rows /\ 0 <= pos[2] /\ pos[2] < columns

\* ---- Multiplayer_Game-master Board --------------------------------------
\* mutant: the events of the cell are neither set nor dropped
notify_waiting_players_Forgets(b, pos) == b

notify_waiting_players(b, pos) == [b EXCEPT !.waiting_players[pos] = <<>>]

\* mutant: only the event of the first watcher is set and dropped
notify_change_watchers_FirstOnly(b) ==
    [b EXCEPT !.change_watchers = IF @ = <<>> THEN <<>> ELSE Tail(@)]

notify_change_watchers(b) == [b EXCEPT !.change_watchers = <<>>]

\* mutant: giving up a card counts as a change of the board
relinquish_control_Notifies(b, p, pos) ==
    IF b.controllers[pos] = p
    THEN notify_change_watchers([b EXCEPT !.controllers[pos] = Nobody,
                                          !.player_cards[p] = RemoveFirst(@, pos)])
    ELSE b

\* mutant: the controller is cleared but the ownership list keeps the cell
relinquish_control_KeepsList(b, p, pos) ==
    IF b.controllers[pos] = p
    THEN [b EXCEPT !.controllers[pos] = Nobody]
    ELSE b

relinquish_control(b, p, pos) ==
    IF b.controllers[pos] = p
    THEN [b EXCEPT !.controllers[pos] = Nobody,
                   !.player_cards[p] = RemoveFirst(@, pos)]
    ELSE b

check_rep(b) ==
    /\ \A pos \in Cells :
          /\ b.cards[pos] = None => (~b.face_up[pos] /\ b.controllers[pos] = Nobody)
          /\ b.controllers[pos] # Nobody => b.face_up[pos]
    /\ \A p \in DOMAIN b.player_cards : \A i \in 1..Len(b.player_cards[p]) :
          /\ b.controllers[b.player_cards[p][i]] = p
          /\ b.cards[b.player_cards[p][i]] # None
    /\ \A pos \in Cells :
          b.controllers[pos] # Nobody => InSeq(b.player_cards[b.controllers[pos]], pos)

\* mutant: every controlled card is rendered as the viewer's own
get_board_state_AnyController(b, player_id) ==
    <<ToString(rows) \o "x" \o ToString(columns)>> \o
    [i \in 1..(rows * columns) |->
        LET pos == <<(i - 1) \div columns, (i - 1) % columns>> IN
        IF b.cards[pos] = None THEN "none"
        ELSE IF ~b.face_up[pos] THEN "down"
        ELSE IF b.controllers[pos] # Nobody THEN "my " \o b.cards[pos]
        ELSE "up " \o b.cards[pos]]

\* the lines of get_board_state, before '\n'.join
get_board_state(b, player_id) ==
    <<ToString(rows) \o "x" \o ToString(columns)>> \o
    [i \in 1..(rows * columns) |->
        LET pos == <<(i - 1) \div columns, (i - 1) % columns>> IN
        IF b.cards[pos] = None THEN "none"
        ELSE IF ~b.face_up[pos] THEN "down"
        ELSE IF b.controllers[pos] = player_id THEN "my " \o b.cards[pos]
        ELSE "up " \o b.cards[pos]]

\* mutant: the matched card is removed and its waiters are not woken
RemoveMatched_NoWake(b, p, pos) ==
    IF b.cards[pos] # None
    THEN notify_change_watchers(
             [b EXCEPT !.cards[pos] = None,
                       !.face_up[pos] = FALSE,
                       !.controllers[pos] = Nobody,
                       !.player_cards[p] = RemoveFirst(@, pos)])
    ELSE b

\* mutant: the matched card is removed from the grid but not from the list
RemoveMatched_KeepsOwner(b, p, pos) ==
    IF b.cards[pos] # None
    THEN notify_change_watchers(notify_waiting_players(
             [b EXCEPT !.cards[pos] = None,
                       !.face_up[pos] = FALSE,
                       !.controllers[pos] = Nobody], pos))
    ELSE b

\* rule 3-A, one card of the matched pair
RemoveMatched(b, p, pos) ==
    IF b.cards[pos] # None
    THEN notify_change_watchers(notify_waiting_players(
             [b EXCEPT !.cards[pos] = None,
                       !.face_up[pos] = FALSE,
                       !.controllers[pos] = Nobody,
                       !.player_cards[p] = RemoveFirst(@, pos)], pos))
    ELSE b

\* mutant: rule 3-B without the test that nobody controls the card
TurnDown_AnyController(b, pos) ==
    IF b.cards[pos] # None /\ b.face_up[pos]
    THEN notify_change_watchers(notify_waiting_players(
             [b EXCEPT !.face_up[pos] = FALSE], pos))
    ELSE b

\* rule 3-B, one card of the unmatched move
TurnDown(b, pos) ==
    IF b.cards[pos] # None /\ b.face_up[pos] /\ b.controllers[pos] = Nobody
    THEN notify_change_watchers(notify_waiting_players(
             [b EXCEPT !.face_up[pos] = FALSE], pos))
    ELSE b

RECURSIVE CleanupCards(_, _, _, _)
CleanupCards(b, p, cs, matched) ==
    IF cs = <<>> THEN b
    ELSE CleanupCards(IF matched THEN RemoveMatched(b, p, Head(cs))
                                 ELSE TurnDown(b, Head(cs)),
                      p, Tail(cs), matched)

\* mutant: the pending move is processed but its record is not cleared
Cleanup_KeepsMove(b, p) ==
    IF b.previous_moves[p].set
    THEN CleanupCards(b, p, b.previous_moves[p].cards, b.previous_moves[p].matched)
    ELSE b

\* the "Cleanup previous move" block at the head of the critical section
Cleanup(b, p) ==
    IF b.previous_moves[p].set
    THEN [CleanupCards(b, p, b.previous_moves[p].cards, b.previous_moves[p].matched)
             EXCEPT !.previous_moves[p] = NoMove]
    ELSE b

\* mutant: the first card is given up but no pending move is recorded
FailSecond_NoMove(b, p, first) ==
    notify_waiting_players(relinquish_control(b, p, first), first)

\* mutant: the pending move is recorded but the first card stays controlled
FailSecond_KeepsControl(b, p, first) ==
    notify_waiting_players([b EXCEPT !.previous_moves[p] = Move(<<first>>, FALSE)], first)

\* mutant: the first card is given up and its waiters are left asleep
FailSecond_NoWake(b, p, first) ==
    [relinquish_control(b, p, first) EXCEPT !.previous_moves[p] = Move(<<first>>, FALSE)]

\* rules 2-A and 2-B: give up the first card, remember it, wake its waiters
FailSecond(b, p, first) ==
    notify_waiting_players(
        [relinquish_control(b, p, first) EXCEPT !.previous_moves[p] = Move(<<first>>, FALSE)],
        first)

Checked(b) == [b |-> b, out |-> IF check_rep(b) THEN "ok" ELSE "AssertionError"]

\* mutant: rule 1-D of the synchronous board, the flip fails instead of waiting
FirstCard_Fails(b, p, pos, k) ==
    LET controller == b.controllers[pos] IN
    IF controller # Nobody /\ controller # p
    THEN [b |-> b, out |-> "Controlled"]
    ELSE LET taken == [b EXCEPT !.controllers[pos] = p,
                                !.player_cards[p] = Append(@, pos)]
             b1 == IF ~b.face_up[pos]
                   THEN notify_change_watchers(notify_waiting_players(
                            [taken EXCEPT !.face_up[pos] = TRUE], pos))
                   ELSE IF controller = Nobody
                   THEN notify_waiting_players(taken, pos)
                   ELSE b
         IN  Checked([b1 EXCEPT !.previous_moves[p] = NoMove])

\* mutant: rule 1-C missing, a face-up card is not taken
FirstCard_NoRule1C(b, p, pos, k) ==
    LET controller == b.controllers[pos] IN
    IF controller # Nobody /\ controller # p
    THEN [b |-> [b EXCEPT !.waiting_players[pos] = Append(@, k)], out |-> "wait"]
    ELSE LET taken == [b EXCEPT !.controllers[pos] = p,
                                !.player_cards[p] = Append(@, pos)]
             b1 == IF ~b.face_up[pos]
                   THEN notify_change_watchers(notify_waiting_players(
                            [taken EXCEPT !.face_up[pos] = TRUE], pos))
                   ELSE b
         IN  Checked([b1 EXCEPT !.previous_moves[p] = NoMove])

\* mutant: a requester woken from its wait fails on a controlled cell instead of
\* waiting again
FirstCard_WokenFails(b, p, pos, k) ==
    LET controller == b.controllers[pos] IN
    IF controller # Nobody /\ controller # p
    THEN IF fc[k].st = "waiting"
         THEN [b |-> b, out |-> "Controlled"]
         ELSE [b |-> [b EXCEPT !.waiting_players[pos] = Append(@, k)], out |-> "wait"]
    ELSE LET taken == [b EXCEPT !.controllers[pos] = p,
                                !.player_cards[p] = Append(@, pos)]
             b1 == IF ~b.face_up[pos]
                   THEN notify_change_watchers(notify_waiting_players(
                            [taken EXCEPT !.face_up[pos] = TRUE], pos))
                   ELSE IF controller = Nobody
                   THEN notify_waiting_players(taken, pos)
                   ELSE b
         IN  Checked([b1 EXCEPT !.previous_moves[p] = NoMove])

\* rules 1-B, 1-C, 1-D
FirstCard(b, p, pos, k) ==
    LET controller == b.controllers[pos] IN
    IF controller # Nobody /\ controller # p
    THEN [b |-> [b EXCEPT !.waiting_players[pos] = Append(@, k)], out |-> "wait"]
    ELSE LET taken == [b EXCEPT !.controllers[pos] = p,
                                !.player_cards[p] = Append(@, pos)]
             b1 == IF ~b.face_up[pos]
                   THEN notify_change_watchers(notify_waiting_players(
                            [taken EXCEPT !.face_up[pos] = TRUE], pos))
                   ELSE IF controller = Nobody
                   THEN notify_waiting_players(taken, pos)
                   ELSE b
         IN  Checked([b1 EXCEPT !.previous_moves[p] = NoMove])

\* mutant: rule 2-B waits for a controlled second card instead of failing
SecondCard_Waits(b, p, pos) ==
    LET first == b.player_cards[p][1]
        controller == b.controllers[pos]
        k == CHOOSE c \in DOMAIN fc : fc[c].p = p /\ fc[c].pos = pos /\ fc[c].st # "idle"
    IN
    IF b.cards[pos] = None
    THEN [b |-> FailSecond(b, p, first), out |-> "NoCard"]
    ELSE IF b.face_up[pos] /\ controller # Nobody
    THEN [b |-> [b EXCEPT !.waiting_players[pos] = Append(@, k)], out |-> "wait"]
    ELSE LET b1 == IF ~b.face_up[pos]
                   THEN notify_change_watchers(notify_waiting_players(
                            [b EXCEPT !.face_up[pos] = TRUE], pos))
                   ELSE b
             b2 == IF b1.cards[first] = b1.cards[pos]
                   THEN notify_waiting_players(
                            [b1 EXCEPT !.controllers[pos] = p,
                                       !.player_cards[p] = Append(@, pos),
                                       !.previous_moves[p] = Move(<<first, pos>>, TRUE)],
                            pos)
                   ELSE notify_waiting_players(notify_waiting_players(
                            [relinquish_control(relinquish_control(b1, p, first), p, pos)
                                EXCEPT !.previous_moves[p] = Move(<<first, pos>>, FALSE)],
                            first), pos)
         IN  Checked(b2)

\* mutant: rule 2-E keeps control of both cards after a mismatch
SecondCard_KeepsMismatch(b, p, pos) ==
    LET first == b.player_cards[p][1]
        controller == b.controllers[pos]
    IN
    IF b.cards[pos] = None
    THEN [b |-> FailSecond(b, p, first), out |-> "NoCard"]
    ELSE IF b.face_up[pos] /\ controller # Nobody
    THEN [b |-> FailSecond(b, p, first), out |-> "Controlled"]
    ELSE LET b1 == IF ~b.face_up[pos]
                   THEN notify_change_watchers(notify_waiting_players(
                            [b EXCEPT !.face_up[pos] = TRUE], pos))
                   ELSE b
             b2 == notify_waiting_players(
                       [b1 EXCEPT !.controllers[pos] = p,
                                  !.player_cards[p] = Append(@, pos),
                                  !.previous_moves[p] =
                                      Move(<<first, pos>>, b1.cards[first] = b1.cards[pos])],
                       pos)
         IN  Checked(b2)

\* rules 2-A .. 2-E
SecondCard(b, p, pos) ==
    LET first == b.player_cards[p][1]
        controller == b.controllers[pos]
    IN
    IF b.cards[pos] = None
    THEN [b |-> FailSecond(b, p, first), out |-> "NoCard"]
    ELSE IF b.face_up[pos] /\ controller # Nobody
    THEN [b |-> FailSecond(b, p, first), out |-> "Controlled"]
    ELSE LET b1 == IF ~b.face_up[pos]
                   THEN notify_change_watchers(notify_waiting_players(
                            [b EXCEPT !.face_up[pos] = TRUE], pos))
                   ELSE b
             b2 == IF b1.cards[first] = b1.cards[pos]
                   THEN notify_waiting_players(
                            [b1 EXCEPT !.controllers[pos] = p,
                                       !.player_cards[p] = Append(@, pos),
                                       !.previous_moves[p] = Move(<<first, pos>>, TRUE)],
                            pos)
                   ELSE notify_waiting_players(notify_waiting_players(
                            [relinquish_control(relinquish_control(b1, p, first), p, pos)
                                EXCEPT !.previous_moves[p] = Move(<<first, pos>>, FALSE)],
                            first), pos)
         IN  Checked(b2)

\* mutant: the pass does not check that the card still exists after the cleanup
flip_card_NoExistenceCheck(b0, p, pos, k) ==
    LET b == Cleanup(b0, p)
        num_controlled == Len(b.player_cards[p])
    IN
    IF num_controlled = 0 THEN FirstCard(b, p, pos, k)
    ELSE IF num_controlled = 1 THEN SecondCard(b, p, pos)
    ELSE [b |-> b, out |-> "Invalid"]

\* mutant: the no-card failure of a first-card flip wakes the watchers and the
\* waiters of the cell
flip_card_NoCardNotifies(b0, p, pos, k) ==
    LET b == Cleanup(b0, p)
        num_controlled == Len(b.player_cards[p])
    IN
    IF b.cards[pos] = None /\ num_controlled = 0
    THEN [b |-> notify_change_watchers(notify_waiting_players(b, pos)), out |-> "NoCard"]
    ELSE IF b.cards[pos] = None /\ num_controlled = 1
    THEN [b |-> FailSecond(b, p, b.player_cards[p][1]), out |-> "NoCard"]
    ELSE IF num_controlled = 0 THEN FirstCard(b, p, pos, k)
    ELSE IF num_controlled = 1 THEN SecondCard(b, p, pos)
    ELSE [b |-> b, out |-> "Invalid"]

\* one pass of the retry loop of flip_card, under the board lock
flip_card(b0, p, pos, k) ==
    LET b == Cleanup(b0, p)
        num_controlled == Len(b.player_cards[p])
    IN
    IF b.cards[pos] = None /\ num_controlled = 0
    THEN [b |-> b, out |-> "NoCard"]
    ELSE IF b.cards[pos] = None /\ num_controlled = 1
    THEN [b |-> FailSecond(b, p, b.player_cards[p][1]), out |-> "NoCard"]
    ELSE IF num_controlled = 0 THEN FirstCard(b, p, pos, k)
    ELSE IF num_controlled = 1 THEN SecondCard(b, p, pos)
    ELSE [b |-> b, out |-> "Invalid"]

\* ---- MemoryGame Board ---------------------------------------------------
\* _grid is cards, _faces_up is the set of cells where face_up holds, _controls
\* is player_cards; a cell that is no key of the dict _controllers is Absent
MG_notify_waiting_players(b, pos) == [b EXCEPT !.waiting_players[pos] = <<>>]

MG_notify_change_watchers(b) == [b EXCEPT !.change_watchers = <<>>]

\* self._controllers.get(pos)
MG_controller(b, pos) == IF b.controllers[pos] = Absent THEN Nobody ELSE b.controllers[pos]

MG_relinquish_control(b, p, pos) ==
    IF MG_controller(b, pos) = p
    THEN [b EXCEPT !.controllers[pos] = Nobody,
                   !.player_cards[p] = RemoveFirst(@, pos)]
    ELSE b

MG_check_rep(b) ==
    /\ \A p \in DOMAIN b.player_cards : \A i \in 1..Len(b.player_cards[p]) :
          /\ \A q \in DOMAIN b.player_cards : \A j \in 1..Len(b.player_cards[q]) :
                (q < p \/ (q = p /\ j < i)) => b.player_cards[q][j] # b.player_cards[p][i]
          /\ MG_controller(b, b.player_cards[p][i]) = p
    /\ \A pos \in Cells :
          b.face_up[pos] => (b.controllers[pos] # Absent /\ b.cards[pos] # None)
    /\ \A pos \in Cells :
          (b.controllers[pos] # Absent /\ b.face_up[pos]) => b.controllers[pos] # Nobody

\* the lines of MemoryGame's get_board_state, before '\n'.join; the lookup
\* self._controllers[pos] raises KeyError for a cell that is no key of the dict
MG_get_board_state(b, player_id) ==
    <<ToString(rows) \o "x" \o ToString(columns)>> \o
    [i \in 1..(rows * columns) |->
        LET pos == <<(i - 1) \div columns, (i - 1) % columns>> IN
        IF b.cards[pos] = None THEN "none"
        ELSE IF ~b.face_up[pos] THEN "down"
        ELSE IF b.controllers[pos] = Absent THEN "KeyError"
        ELSE IF b.controllers[pos] = player_id THEN "my " \o b.cards[pos]
        ELSE "up " \o b.cards[pos]]

MG_RemoveMatched(b, pos) ==
    IF b.cards[pos] # None
    THEN MG_notify_change_watchers(MG_notify_waiting_players(
             [b EXCEPT !.cards[pos] = None,
                       !.face_up[pos] = FALSE,
                       !.controllers[pos] = Absent], pos))
    ELSE b

MG_TurnDown(b, pos) ==
    IF b.cards[pos] # None /\ b.face_up[pos] /\ MG_controller(b, pos) = Nobody
    THEN MG_notify_change_watchers(MG_notify_waiting_players(
             [b EXCEPT !.face_up[pos] = FALSE], pos))
    ELSE b

RECURSIVE MG_CleanupCards(_, _, _)
MG_CleanupCards(b, cs, matched) ==
    IF cs = <<>> THEN b
    ELSE MG_CleanupCards(IF matched THEN MG_RemoveMatched(b, Head(cs))
                                    ELSE MG_TurnDown(b, Head(cs)),
                         Tail(cs), matched)

MG_Cleanup(b, p) ==
    IF b.previous_moves[p].set
    THEN LET prev == b.previous_moves[p]
             b1 == MG_CleanupCards(b, prev.cards, prev.matched)
             b2 == IF prev.matched
                      /\ \A i \in 1..Len(b1.player_cards[p]) :
                            InSeq(prev.cards, b1.player_cards[p][i])
                   THEN [b1 EXCEPT !.player_cards[p] = <<>>]
                   ELSE b1
         IN  [b2 EXCEPT !.previous_moves[p] = NoMove]
    ELSE b

MG_FailSecond(b, p, first) ==
    MG_notify_waiting_players(
        [MG_relinquish_control(b, p, first) EXCEPT !.previous_moves[p] = Move(<<first>>, FALSE)],
        first)

MG_Checked(b) == [b |-> b, out |-> IF MG_check_rep(b) THEN "ok" ELSE "AssertionError"]

MG_FirstCard(b, p, pos, k) ==
    LET controller == MG_controller(b, pos) IN
    IF controller # Nobody /\ controller # p
    THEN [b |-> [b EXCEPT !.waiting_players[pos] = Append(@, k)], out |-> "wait"]
    ELSE LET b1 == IF ~b.face_up[pos]
                   THEN MG_notify_change_watchers([b EXCEPT !.face_up[pos] = TRUE])
                   ELSE b
             b2 == MG_notify_waiting_players(
                       [b1 EXCEPT !.controllers[pos] = p,
                                  !.player_cards[p] = Append(@, pos)], pos)
         IN  MG_Checked([b2 EXCEPT !.previous_moves[p] = NoMove])

MG_SecondCard(b, p, pos) ==
    LET first == b.player_cards[p][1]
        controller == MG_controller(b, pos)
    IN
    IF b.cards[pos] = None
    THEN [b |-> MG_FailSecond(b, p, first), out |-> "NoCard"]
    ELSE IF b.face_up[pos] /\ controller # Nobody
    THEN [b |-> MG_FailSecond(b, p, first), out |-> "Controlled"]
    ELSE LET b1 == IF ~b.face_up[pos]
                   THEN MG_notify_change_watchers([b EXCEPT !.face_up[pos] = TRUE])
                   ELSE b
             b2 == [b1 EXCEPT !.controllers[pos] = p,
                              !.player_cards[p] = Append(@, pos)]
             b3 == [b2 EXCEPT !.previous_moves[p] =
                                 Move(<<first, pos>>, b2.cards[first] = b2.cards[pos])]
         IN  MG_Checked(MG_notify_waiting_players(b3, pos))

\* one pass of the retry loop of MemoryGame's flip_card, under the board lock;
\* there is no bounds check: self._grid[row][col], evaluated after the cleanup,
\* raises IndexError for an index that the list rejects
MG_flip_card(b0, p, pos, k) ==
    LET b == MG_Cleanup(b0, p)
        player_controls == b.player_cards[p]
    IN
    IF ~InBounds(pos)
    THEN [b |-> b, out |-> "IndexError"]
    ELSE IF b.cards[pos] = None
    THEN [b |-> IF player_controls # <<>> THEN MG_FailSecond(b, p, player_controls[1]) ELSE b,
          out |-> "NoCard"]
    ELSE IF Len(player_controls) = 0 THEN MG_FirstCard(b, p, pos, k)
    ELSE IF Len(player_controls) = 1 THEN MG_SecondCard(b, p, pos)
    ELSE [b |-> b, out |-> "Invalid"]

\* ---- calls in flight ----------------------------------------------------
\* a call slot with no call in flight; res is how its last call ended
Returned(res) == [st |-> "idle", p |-> Nobody, pos |-> <<0, 0>>, res |-> res]

\* ---- the board lock ------------------------------------------------------
\* A coroutine can be overtaken only where it is suspended.  These are the
\* positions of a flip, a watch and a map call that lie inside an
\* "async with self._lock" block: none, in either board.  flip_card awaits
\* event_to_wait.wait() after the block, watch_for_change awaits event.wait()
\* after the block, map_cards awaits the value lock and f(card_value) outside
\* the blocks of its snapshot and of its write-back.
\* mutant: the flip waits for its event inside the block
FlipLockedAt_Waiting == {"waiting"}

FlipLockedAt == {}

WatchLockedAt == {}

\* mutant: the map call waits for the lock of a value inside the block
MapLockedAt_Acquire == {"acquire"}

\* mutant: the map call awaits the transform inside the block
MapLockedAt_Transform == {"transform"}

MapLockedAt == {}

\* the coroutines that hold the board lock
LockHolders ==
    {<<"flip", k>> : k \in {j \in DOMAIN fc : fc[j].st \in FlipLockedAt}}
    \cup {<<"watch", w>> : w \in {v \in Watchers : wc[v] \in WatchLockedAt}}
    \cup {<<"map", m>> : m \in {n \in Maps : mc[n].st \in MapLockedAt}}

\* coroutine c can enter "async with self._lock"
LockFreeFor(c) == LockHolders \subseteq {c}

\* a suspended flip whose Event has been set: its token left the queue
Woken(k) == fc[k].st = "waiting" /\ ~InSeq(waiting_players[fc[k].pos], k)

SetBoard(b) ==
    /\ cards' = b.cards
    /\ face_up' = b.face_up
    /\ controllers' = b.controllers
    /\ player_cards' = b.player_cards
    /\ previous_moves' = b.previous_moves
    /\ waiting_players' = b.waiting_players
    /\ change_watchers' = b.change_watchers

\* the player on whose behalf call slot k flips (one call in flight per player
\* while NumCalls <= NumPlayers)
CallPlayer(k) == ((k - 1) % NumPlayers) + 1

\* a caller issues flip(p, row, column) with an in-range coordinate
FlipStart(k) ==
    /\ fc[k].st = "idle"
    /\ \E pos \in Cells :
          fc' = [fc EXCEPT ![k] = [st |-> "ready", p |-> CallPlayer(k), pos |-> pos,
                                   res |-> "none"]]
    /\ UNCHANGED <<cards, face_up, controllers, player_cards, previous_moves,
                   waiting_players, change_watchers, map_locks, wc, mc, fixed>>

\* a caller issues flip(p, row, column) for any player, whether or not another
\* flip of that player is in flight
FlipStartAny(k) ==
    /\ fc[k].st = "idle"
    /\ \E p \in Players, pos \in Cells :
          fc' = [fc EXCEPT ![k] = [st |-> "ready", p |-> p, pos |-> pos, res |-> "none"]]
    /\ UNCHANGED <<cards, face_up, controllers, player_cards, previous_moves,
                   waiting_players, change_watchers, map_locks, wc, mc, fixed>>

\* coordinates outside the grid that a python list rejects too (an index i of a
\* list of n items is rejected when i >= n or i < -n)
Rejected == {<<rows, 0>>, <<0, columns>>, <<-rows - 1, 0>>, <<0, -columns - 1>>}

\* coordinates outside the grid that a python list accepts, counting from its end
Wrapping == {<<-1, 0>>, <<0, -1>>}

\* a caller issues flip(p, row, column) with a coordinate outside the grid.  On
\* the MemoryGame board, which has no bounds check, a Wrapping coordinate raises
\* no error at all and is stored as a key outside the grid; the model issues
\* there only the coordinates that end in IndexError.
FlipStartOut(k) ==
    /\ fc[k].st = "idle"
    /\ \E pos \in Rejected \cup (IF variant = "MP" THEN Wrapping ELSE {}) :
          fc' = [fc EXCEPT ![k] = [st |-> "ready", p |-> CallPlayer(k), pos |-> pos,
                                   res |-> "none"]]
    /\ UNCHANGED <<cards, face_up, controllers, player_cards, previous_moves,
                   waiting_players, change_watchers, map_locks, wc, mc, fixed>>

\* mutant: the bounds check comes after the cleanup of the pending move
FlipRun_CleansFirst(k) ==
    /\ fc[k].st = "ready" \/ Woken(k)
    /\ IF variant = "MP" /\ fc[k].st = "ready" /\ ~InBounds(fc[k].pos)
       THEN /\ fc' = [fc EXCEPT ![k] = Returned("OutOfBounds")]
            /\ SetBoard(Cleanup(Board, fc[k].p))
       ELSE LET r == IF variant = "MP" THEN flip_card(Board, fc[k].p, fc[k].pos, k)
                                       ELSE MG_flip_card(Board, fc[k].p, fc[k].pos, k)
            IN
            /\ SetBoard(r.b)
            /\ fc' = [fc EXCEPT ![k] = IF r.out = "wait"
                                         THEN [fc[k] EXCEPT !.st = "waiting"]
                                         ELSE Returned(r.out)]
    /\ UNCHANGED <<map_locks, wc, mc, fixed>>

\* the coroutine runs: bounds check on entry, then one pass of the loop
FlipRun(k) ==
    /\ fc[k].st = "ready" \/ Woken(k)
    /\ LockFreeFor(<<"flip", k>>)
    /\ IF variant = "MP" /\ fc[k].st = "ready" /\ ~InBounds(fc[k].pos)
       THEN /\ fc' = [fc EXCEPT ![k] = Returned("OutOfBounds")]
            /\ UNCHANGED <<cards, face_up, controllers, player_cards, previous_moves,
                           waiting_players, change_watchers>>
       ELSE LET r == IF variant = "MP" THEN flip_card(Board, fc[k].p, fc[k].pos, k)
                                       ELSE MG_flip_card(Board, fc[k].p, fc[k].pos, k)
            IN
            /\ SetBoard(r.b)
            /\ fc' = [fc EXCEPT ![k] = IF r.out = "wait"
                                         THEN [fc[k] EXCEPT !.st = "waiting"]
                                         ELSE Returned(r.out)]
    /\ UNCHANGED <<map_locks, wc, mc, fixed>>

\* mutant: look first runs the player's lazy cleanup
look_CleansUp(b, player_id) ==
    [b |-> IF variant = "MP" THEN Cleanup(b, player_id) ELSE MG_Cleanup(b, player_id),
     text |-> IF variant = "MP" THEN get_board_state(b, player_id)
                                ELSE MG_get_board_state(b, player_id)]

\* look of either board: the board state, read without the lock
look(b, player_id) ==
    [b |-> b,
     text |-> IF variant = "MP" THEN get_board_state(b, player_id)
                                ELSE MG_get_board_state(b, player_id)]

\* a caller looks at the board as player q; lk keeps the text it got, and n
\* tells a look from the look before it
Look(q) ==
    /\ SetBoard(look(Board, q).b)
    /\ lk' = [p |-> q, text |-> look(Board, q).text, n |-> (lk.n % 2) + 1]
    /\ UNCHANGED <<variant, rows, columns, script, ctor, map_locks, fc, wc, mc>>

\* watch_for_change up to event.wait()
WatchStart(w) ==
    /\ wc[w] = "idle"
    /\ LockFreeFor(<<"watch", w>>)
    /\ wc' = [wc EXCEPT ![w] = "watching"]
    /\ change_watchers' = Append(change_watchers, w)
    /\ UNCHANGED <<cards, face_up, controllers, player_cards, previous_moves,
                   waiting_players, map_locks, fc, mc, fixed>>

\* the watcher's Event was set: watch returns
WatchReturn(w) ==
    /\ wc[w] = "watching"
    /\ ~InSeq(change_watchers, w)
    /\ wc' = [wc EXCEPT ![w] = "idle"]
    /\ UNCHANGED <<cards, face_up, controllers, player_cards, previous_moves,
                   waiting_players, change_watchers, map_locks, fc, mc, fixed>>

\* ---- cancellation of a suspended call -----------------------------------
\* the Event of a call whose task was cancelled: nobody waits on it any more
Orphan == 0

\* cancellations of still-registered calls that a run may hold at once
MaxOrphans == 1

\* the Events left in the registries by cancelled calls
OrphanTokens ==
    {x \in Cells \X (1..(NumCalls + MaxOrphans)) :
        /\ x[2] <= Len(waiting_players[x[1]])
        /\ waiting_players[x[1]][x[2]] = Orphan}

OrphanWatches == Len(SelectSeq(change_watchers, LAMBDA t : t = Orphan))

\* q with the Event of requester t turned into an Event nobody waits on
Orphaned(q, t) == [i \in 1..Len(q) |-> IF q[i] = t THEN Orphan ELSE q[i]]

\* the task of a flip suspended in event_to_wait.wait() is cancelled:
\* CancelledError leaves flip_card at the await, outside the lock, and no
\* handler takes the Event out of _waiting_players
FlipCancel(k) ==
    /\ fc[k].st = "waiting"
    /\ ~Woken(k) => Cardinality(OrphanTokens) + OrphanWatches < MaxOrphans
    /\ waiting_players' = [pos \in Cells |-> Orphaned(waiting_players[pos], k)]
    /\ fc' = [fc EXCEPT ![k] = Returned("Cancelled")]
    /\ UNCHANGED <<cards, face_up, controllers, player_cards, previous_moves,
                   change_watchers, map_locks, wc, mc, fixed>>

\* the task of a watch suspended in watch_event.wait() is cancelled: the Event
\* stays in _change_watchers
WatchCancel(w) ==
    /\ wc[w] = "watching"
    /\ InSeq(change_watchers, w) => Cardinality(OrphanTokens) + OrphanWatches < MaxOrphans
    /\ change_watchers' = Orphaned(change_watchers, w)
    /\ wc' = [wc EXCEPT ![w] = "idle"]
    /\ UNCHANGED <<cards, face_up, controllers, player_cards, previous_moves,
                   waiting_players, map_locks, fc, mc, fixed>>

\* ---- map_cards (the same algorithm in both boards) ----------------------
\* the transform of a map call is a function on card values; the call asks
\* it once for each distinct value of its snapshot, so the model draws f(v)
\* when the call has awaited it and records it in f (None: not asked yet)
NotAsked == [v \in Values |-> None]

\* "for r in range(rows): for c in range(columns)"
RowMajor == [i \in 1..(rows * columns) |-> <<(i - 1) \div columns, (i - 1) % columns>>]

\* mutant: one key for every occupied cell of the snapshot, so a value that
\* several cells hold comes up several times
GroupKeys_PerCell(snap) ==
    LET occupied == {i \in 1..(rows * columns) : snap[RowMajor[i]] # None}
        RECURSIVE Build(_)
        Build(S) == IF S = {} THEN <<>>
                    ELSE LET i == CHOOSE x \in S : \A y \in S : x <= y
                         IN  <<snap[RowMajor[i]]>> \o Build(S \ {i})
    IN  Build(occupied)

\* the keys of card_value_positions in insertion order: the distinct values of
\* the snapshot by first occurrence in row-major order
GroupKeys(snap) ==
    LET firsts == {i \in 1..(rows * columns) :
                      /\ snap[RowMajor[i]] # None
                      /\ \A j \in 1..(i - 1) : snap[RowMajor[j]] # snap[RowMajor[i]]}
        RECURSIVE Build(_)
        Build(S) == IF S = {} THEN <<>>
                    ELSE LET i == CHOOSE x \in S : \A y \in S : x <= y
                         IN  <<snap[RowMajor[i]]>> \o Build(S \ {i})
    IN  Build(firsts)

\* mutant: the write-back rewrites only the first cell of the group
WriteBack_FirstOnly(grid, snap, card_value, new_value) ==
    [pos \in Cells |-> IF /\ snap[pos] = card_value /\ grid[pos] = card_value
                          /\ \A i \in 1..(rows * columns) :
                                (snap[RowMajor[i]] = card_value /\ RowMajor[i] # pos)
                                   => \E j \in 1..(i - 1) : RowMajor[j] = pos
                       THEN new_value ELSE grid[pos]]

\* mutant: the write-back clears the cells of the group instead of rewriting them
WriteBack_Removes(grid, snap, card_value, new_value) ==
    [pos \in Cells |-> IF snap[pos] = card_value /\ grid[pos] = card_value
                       THEN None ELSE grid[pos]]

\* mutant: the write-back rewrites every cell that holds the value now, not the
\* cells of the group
WriteBack_ByValue(grid, snap, card_value, new_value) ==
    [pos \in Cells |-> IF grid[pos] = card_value THEN new_value ELSE grid[pos]]

\* mutant: the write-back rewrites the cells of the group without looking at
\* what they hold now
WriteBack_WholeGroup(grid, snap, card_value, new_value) ==
    [pos \in Cells |-> IF snap[pos] = card_value THEN new_value ELSE grid[pos]]

\* the write-back loop over the positions of one group
WriteBack(grid, snap, card_value, new_value) ==
    [pos \in Cells |-> IF snap[pos] = card_value /\ grid[pos] = card_value
                       THEN new_value ELSE grid[pos]]

\* a map slot with no call in flight; res is how its last call ended
MapReturned(res) == [st |-> "idle", f |-> NotAsked, snap |-> [pos \in Cells |-> None],
                     idx |-> 0, res |-> res]

\* the final "async with self._lock: self.check_rep()", then map returns
MapEnd(b) ==
    MapReturned(IF (IF variant = "MP" THEN check_rep(b) ELSE MG_check_rep(b))
                THEN "ok" ELSE "AssertionError")

\* map_cards is called with transform f: snapshot under the board lock
MapStart(m) ==
    /\ mc[m].st = "idle"
    /\ LockFreeFor(<<"map", m>>)
    /\ mc' = [mc EXCEPT ![m] = IF GroupKeys(cards) = <<>>
                                THEN MapEnd(Board)
                                ELSE [st |-> "acquire", f |-> NotAsked, snap |-> cards,
                                      idx |-> 1, res |-> "none"]]
    /\ UNCHANGED <<cards, face_up, controllers, player_cards, previous_moves,
                   waiting_players, change_watchers, map_locks, fc, wc, fixed>>

\* map_cards is called with a transform f that is known in full: the same
\* start, with f recorded for every value before it is asked
MapStartWith(m) ==
    /\ mc[m].st = "idle"
    /\ LockFreeFor(<<"map", m>>)
    /\ \E f \in [Values -> Values] :
          mc' = [mc EXCEPT ![m] = IF GroupKeys(cards) = <<>>
                                   THEN MapEnd(Board)
                                   ELSE [st |-> "acquire", f |-> f, snap |-> cards,
                                         idx |-> 1, res |-> "none"]]
    /\ UNCHANGED <<cards, face_up, controllers, player_cards, previous_moves,
                   waiting_players, change_watchers, map_locks, fc, wc, fixed>>

\* mutant: the call goes on whether or not the lock of the value is free
MapAcquire_Barges(m) ==
    /\ mc[m].st = "acquire"
    /\ LET card_value == GroupKeys(mc[m].snap)[mc[m].idx] IN
       /\ map_locks[card_value] = Absent => LockFreeFor(<<"map", m>>)
       /\ map_locks' = [map_locks EXCEPT ![card_value] = m]
    /\ mc' = [mc EXCEPT ![m].st = "transform"]
    /\ UNCHANGED <<cards, face_up, controllers, player_cards, previous_moves,
                   waiting_players, change_watchers, fc, wc, fixed>>

\* get or create the lock of the current value and take it when it is free
MapAcquire(m) ==
    /\ mc[m].st = "acquire"
    /\ LET card_value == GroupKeys(mc[m].snap)[mc[m].idx] IN
       /\ map_locks[card_value] = Absent => LockFreeFor(<<"map", m>>)
       /\ map_locks[card_value] \in {Absent, Free}
       /\ map_locks' = [map_locks EXCEPT ![card_value] = m]
    /\ mc' = [mc EXCEPT ![m].st = "transform"]
    /\ UNCHANGED <<cards, face_up, controllers, player_cards, previous_moves,
                   waiting_players, change_watchers, fc, wc, fixed>>

\* f(card_value) has returned (the value recorded for it, when f is known in
\* full): write back under the board lock, release the value lock, go on to the
\* next value or finish
MapWrite(m) ==
    /\ mc[m].st = "transform"
    /\ LockFreeFor(<<"map", m>>)
    /\ \E new_value \in Values :
       LET keys == GroupKeys(mc[m].snap)
           card_value == keys[mc[m].idx]
           grid == WriteBack(cards, mc[m].snap, card_value, new_value)
           cards_changed == \E pos \in Cells :
                               mc[m].snap[pos] = card_value /\ cards[pos] = card_value
           locks1 == IF new_value # card_value /\ map_locks[new_value] = Absent
                     THEN [map_locks EXCEPT ![new_value] = Free] ELSE map_locks
           next == [mc[m] EXCEPT !.idx = @ + 1, !.st = "acquire",
                                 !.f[card_value] = new_value]
       IN
       /\ mc[m].f[card_value] \in {None, new_value}
       /\ cards' = grid
       /\ change_watchers' = IF cards_changed /\ new_value # card_value
                             THEN <<>> ELSE change_watchers
       /\ map_locks' = IF locks1[card_value] = m
                       THEN [locks1 EXCEPT ![card_value] = Free] ELSE locks1
       /\ mc' = [mc EXCEPT ![m] = IF mc[m].idx = Len(keys)
                                  THEN MapEnd([Board EXCEPT !.cards = grid])
                                  ELSE next]
    /\ UNCHANGED <<face_up, controllers, player_cards, previous_moves,
                   waiting_players, fc, wc, fixed>>

\* ---- construction -------------------------------------------------------
\* the board file read by parse_from_file: the cards in row-major order,
\* the values of the deck in turn (boards/ab.txt alternates A and B)
InitialCard(pos, c) == Deck[((pos[1] * c + pos[2]) % NumValues) + 1]

\* the state after Board(...) of variant v with r rows and c columns
InitBoard(v, r, c) ==
    /\ variant = v
    /\ rows = r
    /\ columns = c
    /\ script = [n |-> 0, x |-> <<0, 0>>]
    /\ lk = [p |-> Nobody, text |-> <<>>, n |-> 0]
    /\ ctor = [res |-> "none", rows |-> 0, columns |-> 0, cards |-> <<>>]
    /\ cards = [pos \in (0..(r - 1)) \X (0..(c - 1)) |-> InitialCard(pos, c)]
    /\ face_up = [pos \in (0..(r - 1)) \X (0..(c - 1)) |-> FALSE]
    /\ controllers = [pos \in (0..(r - 1)) \X (0..(c - 1)) |->
                         IF v = "MP" THEN Nobody ELSE Absent]
    /\ player_cards = [p \in Players \cup Contenders |-> <<>>]
    /\ previous_moves = [p \in Players \cup Contenders |-> NoMove]
    /\ waiting_players = [pos \in (0..(r - 1)) \X (0..(c - 1)) |-> <<>>]
    /\ change_watchers = <<>>
    /\ map_locks = [v0 \in Values |-> Absent]
    /\ fc = [k \in Calls \cup Contenders |-> Returned("none")]
    /\ wc = [w \in Watchers |-> "idle"]
    /\ mc = [m \in Maps |-> [st |-> "idle", f |-> NotAsked,
                              snap |-> [pos \in (0..(r - 1)) \X (0..(c - 1)) |-> None],
                              idx |-> 0, res |-> "none"]]

\* ---- Board(rows, columns, cards) of Multiplayer_Game-master ---------------
\* the dimensions and the grids handed to the constructor: a card value is a
\* sequence of characters, " " standing for every whitespace character
MaxDim == 2
MaxText == 2

Chars == {"A", " "}

SeqsUpTo(S, n) == UNION {[1..l -> S] : l \in 0..n}

CardTexts == SeqsUpTo(Chars, MaxText)

Grids == SeqsUpTo(SeqsUpTo(CardTexts, MaxDim), MaxDim)

\* __init__: "ok" when the Board object is created, else the exception raised
Board_init(r, c, grid) ==
    IF r <= 0 \/ c <= 0 THEN "ValueError"
    ELSE IF Len(grid) # r THEN "ValueError"
    ELSE IF \E i \in 1..Len(grid) : Len(grid[i]) # c THEN "ValueError"
    ELSE "ok"

\* a caller constructs a Board
Construct ==
    /\ ctor.res = "none"
    /\ \E r \in (-1)..MaxDim, c \in (-1)..MaxDim, grid \in Grids :
          ctor' = [res |-> Board_init(r, c, grid), rows |-> r, columns |-> c,
                   cards |-> grid]
    /\ UNCHANGED <<variant, rows, columns, script, lk, cards, face_up, controllers,
                   player_cards, previous_moves, waiting_players, change_watchers,
                   map_locks, fc, wc, mc>>

\* ---- specifications -----------------------------------------------------
\* Multiplayer_Game-master: flips of every player, watch and one map call at a
\* time, on a board of one row
Init == InitBoard("MP", 1, MaxCols)

Next ==
    \/ \E k \in Calls : FlipStart(k)
    \/ \E k \in Calls : FlipRun(k)
    \/ \E w \in {1} : WatchStart(w)
    \/ \E w \in {1} : WatchReturn(w)
    \/ \E m \in {1} : MapStart(m)
    \/ \E m \in {1} : MapAcquire(m)
    \/ \E m \in {1} : MapWrite(m)

Spec == Init /\ [][Next]_vars

\* Multiplayer_Game-master: flips and watch on a board of MaxRows rows
InitFlip == InitBoard("MP", MaxRows, MaxCols - 1)

NextFlip ==
    \/ \E k \in Calls : FlipStart(k)
    \/ \E k \in Calls : FlipRun(k)
    \/ \E w \in {1} : WatchStart(w)
    \/ \E w \in {1} : WatchReturn(w)

SpecFlip == InitFlip /\ [][NextFlip]_vars

\* either board: the flips of one player and one map call at a time
InitMap == \E v \in {"MP", "MG"} : InitBoard(v, MaxRows, MaxCols - 1)

NextMap ==
    \/ \E k \in {1} : FlipStart(k)
    \/ \E k \in {1} : FlipRun(k)
    \/ \E m \in {1} : MapStart(m)
    \/ \E m \in {1} : MapAcquire(m)
    \/ \E m \in {1} : MapWrite(m)

SpecMap == InitMap /\ [][NextMap]_vars

\* either board: map calls racing each other
InitRace == \E v \in {"MP", "MG"} : InitBoard(v, 1, MaxCols)

NextRace ==
    \/ \E m \in Maps : MapStart(m)
    \/ \E m \in Maps : MapAcquire(m)
    \/ \E m \in Maps : MapWrite(m)

SpecRace == InitRace /\ [][NextRace]_vars

\* MemoryGame: flips of every player and watch on a board of MaxRows rows
InitMG == InitBoard("MG", MaxRows, MaxCols - 1)

NextMG ==
    \/ \E k \in Calls : FlipStart(k)
    \/ \E k \in Calls : FlipRun(k)
    \/ \E w \in {1} : WatchStart(w)
    \/ \E w \in {1} : WatchReturn(w)

SpecMG == InitMG /\ [][NextMG]_vars

\* either board: flips with coordinates inside and outside the grid, and watch
InitBounds == \E v \in {"MP", "MG"} : InitBoard(v, MaxRows, MaxCols - 1)

NextBounds ==
    \/ \E k \in Calls : FlipStart(k)
    \/ \E k \in Calls : FlipStartOut(k)
    \/ \E k \in Calls : FlipRun(k)
    \/ \E w \in {1} : WatchStart(w)
    \/ \E w \in {1} : WatchReturn(w)

SpecBounds == InitBounds /\ [][NextBounds]_vars

\* Multiplayer_Game-master: several watchers, the flips of one player and one
\* map call at a time, on a board of one row.  The event loop resumes a
\* coroutine whose event is set.
InitWatch == InitBoard("MP", 1, MaxCols)

NextWatch ==
    \/ \E k \in {1} : FlipStart(k)
    \/ \E k \in {1} : FlipRun(k)
    \/ \E w \in Watchers : WatchStart(w)
    \/ \E w \in Watchers : WatchReturn(w)
    \/ \E m \in {1} : MapStart(m)
    \/ \E m \in {1} : MapAcquire(m)
    \/ \E m \in {1} : MapWrite(m)

SpecWatch ==
    /\ InitWatch
    /\ [][NextWatch]_vars
    /\ \A w \in Watchers : WF_vars(WatchReturn(w))

\* either board: one map call at a time whose transform is known in full, and
\* the flips of one player
InitApply == \E v \in {"MP", "MG"} : InitBoard(v, 1, MaxCols)

NextApply ==
    \/ \E k \in {1} : FlipStart(k)
    \/ \E k \in {1} : FlipRun(k)
    \/ \E m \in {1} : MapStartWith(m)
    \/ \E m \in {1} : MapAcquire(m)
    \/ \E m \in {1} : MapWrite(m)

SpecApply == InitApply /\ [][NextApply]_vars

\* either board: flips of every player and one map call at a time,
\* on a board of one row
InitLock == \E v \in {"MP", "MG"} : InitBoard(v, 1, MaxCols - 1)

NextLock ==
    \/ \E k \in Calls : FlipStart(k)
    \/ \E k \in Calls : FlipRun(k)
    \/ \E m \in {1} : MapStart(m)
    \/ \E m \in {1} : MapAcquire(m)
    \/ \E m \in {1} : MapWrite(m)

SpecLock == InitLock /\ [][NextLock]_vars

\* Multiplayer_Game-master: flips and watches whose callers may cancel them
\* while they are suspended, on a board of one row
InitCancel == InitBoard("MP", 1, MaxCols)

NextCancel ==
    \/ \E k \in Calls : FlipStart(k)
    \/ \E k \in Calls : FlipRun(k)
    \/ \E k \in Calls : FlipCancel(k)
    \/ \E w \in {1} : WatchStart(w)
    \/ \E w \in {1} : WatchReturn(w)
    \/ \E w \in {1} : WatchCancel(w)

SpecCancel == InitCancel /\ [][NextCancel]_vars

\* either board: flips and looks of every player, on a board of one row
InitLook == \E v \in {"MP", "MG"} : InitBoard(v, 1, MaxCols)

NextLook ==
    \/ \E k \in Calls : FlipStart(k)
    \/ \E k \in Calls : FlipRun(k)
    \/ \E q \in Players : Look(q)

SpecLook == InitLook /\ [][NextLook]_vars

\* Multiplayer_Game-master: one call of the constructor
InitCtor == InitBoard("MP", 1, 1)

NextCtor == Construct

SpecCtor == InitCtor /\ [][NextCtor]_vars

\* Multiplayer_Game-master: flips whose callers are any players, so that a
\* player may have several flips in flight, on a board of one row
InitAny == InitBoard("MP", 1, MaxCols)

NextAny ==
    \/ \E k \in Calls : FlipStartAny(k)
    \/ \E k \in Calls : FlipRun(k)

SpecAny == InitAny /\ [][NextAny]_vars

\* Multiplayer_Game-master: flips by any player per call slot, and one watcher
InitAnyWatch == InitBoard("MP", 1, MaxCols)

NextAnyWatch ==
    \/ \E k \in Calls : FlipStartAny(k)
    \/ \E k \in Calls : FlipRun(k)
    \/ \E w \in {1} : WatchStart(w)
    \/ \E w \in {1} : WatchReturn(w)

SpecAnyWatch == InitAnyWatch /\ [][NextAnyWatch]_vars

\* The scenario of test_rule_1d_waiting_for_controlled_card and
\* test_waiting_player_succeeds_when_card_freed (test/concurrent_test.py), played
\* on the Multiplayer_Game-master board for every contested cell x,
\* every non-matching second card y and every new first card z other than x.
\* The test awaits each flip of player 1 before it issues the next.
InitScenario ==
    \E d \in {<<MaxRows, MaxCols - 1>>, <<1, MaxCols>>} : InitBoard("MP", d[1], d[2])

Issue(k, pos) ==
    fc' = [fc EXCEPT ![k] = [st |-> "ready", p |-> CallPlayer(k), pos |-> pos, res |-> "none"]]

\* await flip(board, 'player1', x)
ScenarioFirst ==
    /\ script.n = 0
    /\ \E x \in Cells : Issue(1, x) /\ script' = [n |-> 1, x |-> x]
    /\ UNCHANGED <<variant, rows, columns, lk, ctor, cards, face_up, controllers, player_cards,
                   previous_moves, waiting_players, change_watchers, map_locks, wc, mc>>

\* create_task(flip(board, 'player2', x)), once player 1 controls x
ScenarioContend ==
    /\ script.n = 1
    /\ fc[1] = Returned("ok")
    /\ Issue(2, script.x)
    /\ script' = [script EXCEPT !.n = 2]
    /\ UNCHANGED <<variant, rows, columns, lk, ctor, cards, face_up, controllers, player_cards,
                   previous_moves, waiting_players, change_watchers, map_locks, wc, mc>>

\* await flip(board, 'player1', y), a card that does not match, once player 2 waits
ScenarioMiss ==
    /\ script.n = 2
    /\ fc[2].st = "waiting"
    /\ \E y \in Cells : cards[y] # cards[script.x] /\ Issue(1, y)
    /\ script' = [script EXCEPT !.n = 3]
    /\ UNCHANGED <<variant, rows, columns, lk, ctor, cards, face_up, controllers, player_cards,
                   previous_moves, waiting_players, change_watchers, map_locks, wc, mc>>

\* await flip(board, 'player1', z), a new first card
ScenarioNext ==
    /\ script.n = 3
    /\ fc[1] = Returned("ok")
    /\ \E z \in Cells \ {script.x} : Issue(1, z)
    /\ script' = [script EXCEPT !.n = 4]
    /\ UNCHANGED <<variant, rows, columns, lk, ctor, cards, face_up, controllers, player_cards,
                   previous_moves, waiting_players, change_watchers, map_locks, wc, mc>>

NextScenario ==
    \/ ScenarioFirst
    \/ ScenarioContend
    \/ ScenarioMiss
    \/ ScenarioNext
    \/ \E k \in {1, 2} : FlipRun(k)

\* the event loop runs every coroutine that can run; the test goes on
SpecScenario ==
    /\ InitScenario
    /\ [][NextScenario]_vars
    /\ \A k \in {1, 2} : WF_vars(FlipRun(k))
    /\ WF_vars(ScenarioFirst) /\ WF_vars(ScenarioContend)
    /\ WF_vars(ScenarioMiss) /\ WF_vars(ScenarioNext)

\* either board: map calls racing each other and the flips of one player, on a
\* board of one row
InitMaps == \E v \in {"MP", "MG"} : InitBoard(v, 1, MaxCols)

NextMaps ==
    \/ \E k \in {1} : FlipStart(k)
    \/ \E k \in {1} : FlipRun(k)
    \/ \E m \in Maps : MapStart(m)
    \/ \E m \in Maps : MapAcquire(m)
    \/ \E m \in Maps : MapWrite(m)

SpecMaps == InitMaps /\ [][NextMaps]_vars

\* the same on a smaller board, with what the map calls need of the scheduling
\* of asyncio: every transform returns and its caller runs on, and asyncio.Lock
\* wakes its waiters in turn, so a call that finds the lock of its value free
\* again and again gets it; nothing is assumed of the flips
InitFair == \E v \in {"MP", "MG"} : InitBoard(v, 1, MaxCols - 2)

NextFair ==
    \/ \E k \in {1} : FlipStart(k)
    \/ \E k \in {1} : FlipRun(k)
    \/ \E m \in Maps : MapStart(m)
    \/ \E m \in Maps : MapAcquire(m)
    \/ \E m \in Maps : MapWrite(m)

SpecFair ==
    /\ InitFair
    /\ [][NextFair]_vars
    /\ \A m \in Maps : SF_vars(MapAcquire(m)) /\ WF_vars(MapWrite(m))

\* The scenario of test_multiple_players_wait_for_same_card
\* (MemoryGame/test/concurrent_test.py), played on the Multiplayer_Game-master
\* board for every contested cell x, every non-matching second card y and
\* every new first card z other than x: player 1 takes x, the tasks of the other
\* players flip x, player 1 misses with y and then flips z.
Requesters == Contenders \ {1}

InitContend ==
    \E d \in {<<MaxRows, MaxCols - 1>>, <<1, MaxCols>>} : InitBoard("MP", d[1], d[2])

\* await flip(board, 'player1', x)
ContendHold ==
    /\ script.n = 0
    /\ \E x \in Cells : Issue(1, x) /\ script' = [n |-> 1, x |-> x]
    /\ UNCHANGED <<variant, rows, columns, lk, ctor, cards, face_up, controllers, player_cards,
                   previous_moves, waiting_players, change_watchers, map_locks, wc, mc>>

\* create_task(flip(board, 'player<k>', x)), once player 1 controls x
ContendJoin(k) ==
    /\ script.n = 1
    /\ fc[1] = Returned("ok")
    /\ fc[k] = Returned("none")
    /\ fc' = [fc EXCEPT ![k] = [st |-> "ready", p |-> k, pos |-> script.x, res |-> "none"]]
    /\ UNCHANGED <<variant, rows, columns, script, lk, ctor, cards, face_up, controllers,
                   player_cards, previous_moves, waiting_players, change_watchers,
                   map_locks, wc, mc>>

\* await flip(board, 'player1', y), a card that does not match, once the tasks wait
ContendMiss ==
    /\ script.n = 1
    /\ \A k \in Requesters : fc[k].st = "waiting"
    /\ \E y \in Cells : cards[y] # cards[script.x] /\ Issue(1, y)
    /\ script' = [script EXCEPT !.n = 2]
    /\ UNCHANGED <<variant, rows, columns, lk, ctor, cards, face_up, controllers, player_cards,
                   previous_moves, waiting_players, change_watchers, map_locks, wc, mc>>

\* await flip(board, 'player1', z), the flip that cleans up
ContendCleanup ==
    /\ script.n = 2
    /\ fc[1] = Returned("ok")
    /\ \E z \in Cells \ {script.x} : Issue(1, z)
    /\ script' = [script EXCEPT !.n = 3]
    /\ UNCHANGED <<variant, rows, columns, lk, ctor, cards, face_up, controllers, player_cards,
                   previous_moves, waiting_players, change_watchers, map_locks, wc, mc>>

NextContend ==
    \/ ContendHold
    \/ \E k \in Requesters : ContendJoin(k)
    \/ ContendMiss
    \/ ContendCleanup
    \/ \E k \in Contenders : FlipRun(k)

\* the event loop runs every coroutine that can run; the test goes on
SpecContend ==
    /\ InitContend
    /\ [][NextContend]_vars
    /\ \A k \in Contenders : WF_vars(FlipRun(k))
    /\ WF_vars(ContendHold) /\ WF_vars(ContendMiss) /\ WF_vars(ContendCleanup)
    /\ \A k \in Requesters : WF_vars(ContendJoin(k))

\* ---- claims ------------------------------------------------------------

\* C1: in every reachable state of the Multiplayer_Game-master board
\* (flips, watch and map interleaved), a cell that has a controller is
\* occupied and face-up, and an empty cell is face-down and has no controller.
C1_GridInvariant ==
    \A pos \in Cells :
        /\ controllers[pos] # Nobody => (cards[pos] # None /\ face_up[pos])
        /\ cards[pos] = None => (~face_up[pos] /\ controllers[pos] = Nobody)

\* a removed cell next to a controlled one while a map call is under way
C1_Witness ==
    /\ \E pos \in Cells : cards[pos] = None
    /\ \E pos \in Cells : controllers[pos] # Nobody
    /\ mc[1].st = "transform"

\* C2: in every reachable state the ownership list of each player holds
\* exactly the cells whose controller is that player, each once; no cell is in
\* two lists; no list has more than 2 cells.
C2_OwnershipInvariant ==
    /\ \A p \in Players : \A pos \in Cells :
          (controllers[pos] = p) <=> InSeq(player_cards[p], pos)
    /\ \A p \in Players : \A i, j \in 1..Len(player_cards[p]) :
          player_cards[p][i] = player_cards[p][j] => i = j
    /\ \A p, q \in Players : \A pos \in Cells :
          (InSeq(player_cards[p], pos) /\ InSeq(player_cards[q], pos)) => p = q
    /\ \A p \in Players : Len(player_cards[p]) <= 2

\* one player holds a matched pair while another holds a first card
C2_Witness ==
    \E p, q \in Players :
        /\ p # q
        /\ Len(player_cards[p]) = 2
        /\ Len(player_cards[q]) = 1

\* the values of two cells that matched in the snapshot snap still match in
\* grid, unless one of the two cells has been removed
Consistent(snap, grid) ==
    \A a, b \in Cells :
        (snap[a] # None /\ snap[a] = snap[b]) =>
            (grid[a] = None \/ grid[b] = None \/ grid[a] = grid[b])

\* C3: one map call at a time, interleaved with flips that remove cells: two
\* cells that held equal values when the call took its snapshot hold equal
\* values, or one of them is removed, in every state up to and including the
\* one in which the call returns.
C3_PairwiseConsistent ==
    [][Consistent(mc[1].snap, cards) /\ Consistent(mc[1].snap, cards')]_vars

\* the call has rewritten a pair of its snapshot, a cell of the snapshot has
\* been removed since, and another value is still to be processed
C3_Witness ==
    /\ mc[1].st = "transform"
    /\ mc[1].idx > 1
    /\ \E a, b \in Cells :
          /\ a # b
          /\ mc[1].snap[a] = mc[1].snap[b]
          /\ cards[a] \notin {None, mc[1].snap[a]}
          /\ cards[a] = cards[b]
    /\ \E pos \in Cells : mc[1].snap[pos] # None /\ cards[pos] = None

\* C4: the same for every one of several racing map calls: cells that matched
\* when a call took its snapshot match (or are removed) in every later state
\* of that call.
C4_RacePairwiseConsistent ==
    [][\A m \in Maps : Consistent(mc[m].snap, cards')]_vars

\* ---- flips of the Multiplayer_Game-master board, step by step -----------
\* call k is about to run a pass of the retry loop
Running(k) == fc[k].st = "ready" \/ Woken(k)

\* this step is a pass of the retry loop of call k
Ran(k) == Running(k) /\ ~Running(k)'

\* the board as the pass of call k sees it once its lazy cleanup has run
Cleaned(k) == Cleanup(Board, fc[k].p)

\* call k is evaluated as a first-card flip, as a second-card flip
AsFirst(k) == Len(Cleaned(k).player_cards[fc[k].p]) = 0
AsSecond(k) == Len(Cleaned(k).player_cards[fc[k].p]) = 1

\* C5: a first-card flip (no cell controlled after the lazy cleanup) on a cell
\* that another player controls registers a wait token on the cell and is
\* suspended; it neither returns nor fails while another player controls the
\* cell.
C5_BlockedFlipWaits ==
    [][\A k \in Calls :
          /\ (/\ Ran(k)
              /\ AsFirst(k)
              /\ Cleaned(k).cards[fc[k].pos] # None
              /\ Cleaned(k).controllers[fc[k].pos] \notin {Nobody, fc[k].p})
             => /\ fc'[k] = [fc[k] EXCEPT !.st = "waiting"]
                /\ InSeq(waiting_players'[fc[k].pos], k)
          /\ (/\ fc[k].st = "waiting"
              /\ controllers[fc[k].pos] \notin {Nobody, fc[k].p}
              /\ controllers'[fc[k].pos] \notin {Nobody, fc[k].p})
             => fc'[k] = fc[k]
      ]_vars

\* a flip is suspended with its token queued on a face-up cell that the other
\* player holds as a first card
C5_Witness ==
    \E k \in Calls :
        /\ fc[k].st = "waiting"
        /\ waiting_players[fc[k].pos] = <<k>>
        /\ face_up[fc[k].pos]
        /\ controllers[fc[k].pos] \notin {Nobody, fc[k].p}
        /\ player_cards[controllers[fc[k].pos]] = <<fc[k].pos>>
        /\ player_cards[fc[k].p] = <<>>

\* C6: a flip evaluated while the player controls exactly one cell never
\* registers a wait token and never suspends: in that pass it returns or
\* fails with NoCardError or ControlledError.
C6_SecondNeverWaits ==
    [][\A k \in Calls :
          (Ran(k) /\ AsSecond(k))
             => /\ fc'[k].st = "idle"
                /\ fc'[k].res \in {"ok", "NoCard", "Controlled"}
                /\ \A pos \in Cells : ~InSeq(waiting_players'[pos], k)
      ]_vars

\* a second-card flip has just failed on a controlled cell: its player gave
\* up the first card and holds nothing
C6_Witness ==
    \E k \in Calls :
        /\ fc[k].res = "Controlled"
        /\ previous_moves[CallPlayer(k)] # NoMove
        /\ Len(previous_moves[CallPlayer(k)].cards) = 1
        /\ player_cards[CallPlayer(k)] = <<>>

\* C7: player 1 flips x, the flip of x by player 2 blocks, player 1 misses with
\* a second card and flips a new first card: however the wake-up of player 2
\* interleaves with the later flips of player 1, under fair scheduling the
\* blocked flip returns successfully, player 2 controls x and x is face-up.
C7_WaiterServed ==
    <>[](/\ script.n >= 2
         /\ fc[2] = Returned("ok")
         /\ controllers[script.x] = 2
         /\ face_up[script.x])

\* the scenario is over: both flips of player 1 after the miss have returned and
\* player 2, whose flip had blocked, holds the contested cell alone
C7_Witness ==
    /\ script.n = 4
    /\ fc[1] = Returned("ok")
    /\ fc[2] = Returned("ok")
    /\ player_cards[2] = <<script.x>>
    /\ face_up[script.x]

\* C8: a first-card flip blocked on a cell that its controller's matched-pair
\* cleanup removes is woken by the removal and then fails with NoCardError: no
\* flip stays blocked on an empty cell, none gains control of one.
C8_RemovedCellFailsWaiter ==
    [][\A k \in Calls :
          /\ (fc'[k].st = "waiting" /\ cards'[fc'[k].pos] = None)
             => ~InSeq(waiting_players'[fc'[k].pos], k)
          /\ (fc[k].st = "waiting" /\ cards[fc[k].pos] = None /\ fc'[k] # fc[k])
             => /\ fc'[k] = Returned("NoCard")
                /\ controllers'[fc[k].pos] = Nobody
      ]_vars

\* the cell a flip is blocked on has just been removed
C8_Witness ==
    \E k \in Calls : fc[k].st = "waiting" /\ cards[fc[k].pos] = None

\* C9: a first-card flip on an occupied cell that nobody controls, face-down
\* or face-up, succeeds in that pass: the cell is face-up, controlled by the
\* requester and the only cell of the requester's list, its value is the same,
\* and it is rendered "my <value>" for the requester and "up <value>" for the
\* other players.
C9_FirstCardTaken ==
    [][\A k \in Calls :
          (/\ Ran(k)
           /\ AsFirst(k)
           /\ Cleaned(k).cards[fc[k].pos] # None
           /\ Cleaned(k).controllers[fc[k].pos] = Nobody)
          => LET pos == fc[k].pos
                 line == pos[1] * columns + pos[2] + 2
             IN  /\ fc'[k] = Returned("ok")
                 /\ face_up'[pos]
                 /\ controllers'[pos] = fc[k].p
                 /\ player_cards'[fc[k].p] = <<pos>>
                 /\ cards'[pos] = cards[pos]
                 /\ \A q \in Players :
                       get_board_state(Board, q)'[line] =
                           (IF q = fc[k].p THEN "my " ELSE "up ") \o cards[pos]
      ]_vars

\* a player controls, as its first card, a face-up card another player gave up
C9_Witness ==
    \E p, q \in Players :
        /\ p # q
        /\ Len(player_cards[p]) = 1
        /\ previous_moves[q].set
        /\ InSeq(previous_moves[q].cards, player_cards[p][1])

\* C10: a second-card flip on an occupied cell that nobody controls turns it
\* face-up and compares it with the first cell: equal values, the player
\* controls both cells and a matched pending move of the two is recorded;
\* different values, the player controls neither, both cells stay face-up with
\* their values and an unmatched pending move of the two is recorded.
C10_SecondCardCompared ==
    [][\A k \in Calls :
          (/\ Ran(k)
           /\ AsSecond(k)
           /\ cards[fc[k].pos] # None
           /\ controllers[fc[k].pos] = Nobody)
          => LET p == fc[k].p
                 pos == fc[k].pos
                 first == player_cards[p][1]
             IN  /\ fc'[k] = Returned("ok")
                 /\ face_up'[first] /\ face_up'[pos]
                 /\ cards' = cards
                 /\ IF cards[first] = cards[pos]
                    THEN /\ controllers'[first] = p /\ controllers'[pos] = p
                         /\ player_cards'[p] = <<first, pos>>
                         /\ previous_moves'[p] = Move(<<first, pos>>, TRUE)
                    ELSE /\ controllers'[first] = Nobody /\ controllers'[pos] = Nobody
                         /\ player_cards'[p] = <<>>
                         /\ previous_moves'[p] = Move(<<first, pos>>, FALSE)
      ]_vars

\* one player holds a matched pair, another has just missed with two cards
C10_Witness ==
    \E p, q \in Players :
        /\ previous_moves[p].set /\ previous_moves[p].matched
        /\ Len(player_cards[p]) = 2
        /\ previous_moves[q].set /\ ~previous_moves[q].matched
        /\ Len(previous_moves[q].cards) = 2

\* ---- failing second cards of the Multiplayer_Game-master board ----------
\* what rules 2-A and 2-B leave behind, b being the board the pass saw after its
\* cleanup: the first card is face-up with its value and without controller,
\* the requester controls nothing, a move of that one card is pending; the
\* waiters of the first card are woken; nothing else differs from b
GaveUpFirst(b, p, first) ==
    /\ cards' = b.cards
    /\ face_up' = b.face_up
    /\ face_up'[first]
    /\ controllers' = [b.controllers EXCEPT ![first] = Nobody]
    /\ player_cards' = [b.player_cards EXCEPT ![p] = <<>>]
    /\ previous_moves' = [b.previous_moves EXCEPT ![p] = Move(<<first>>, FALSE)]
    /\ waiting_players' = [b.waiting_players EXCEPT ![first] = <<>>]
    /\ change_watchers' = b.change_watchers

\* the pass of call k is a second-card flip on a face-up cell somebody controls
OnControlledSecond(k) ==
    /\ Ran(k)
    /\ AsSecond(k)
    /\ Cleaned(k).cards[fc[k].pos] # None
    /\ Cleaned(k).face_up[fc[k].pos]
    /\ Cleaned(k).controllers[fc[k].pos] # Nobody

\* C12 as amended: a second-card flip on a face-up cell that any player controls
\* fails with ControlledError; the first cell loses its controller, stays
\* face-up with its value, and is recorded as a pending unmatched move of one
\* cell; the target keeps its value and face, and keeps its controller unless
\* the target is the requester's own first cell.
C12_ControlledSecondFails ==
    [][\A k \in Calls :
          OnControlledSecond(k)
          => /\ fc'[k] = Returned("Controlled")
             /\ GaveUpFirst(Cleaned(k), fc[k].p, Cleaned(k).player_cards[fc[k].p][1])
             /\ fc[k].pos # Cleaned(k).player_cards[fc[k].p][1]
                   => controllers'[fc[k].pos] = controllers[fc[k].pos]
      ]_vars

\* C12 as stated: the target's controller is unchanged whoever controls it,
\* the requester included.
C12_TargetControllerKept ==
    [][\A k \in Calls :
          OnControlledSecond(k)
          => /\ fc'[k] = Returned("Controlled")
             /\ controllers'[fc[k].pos] = controllers[fc[k].pos]
      ]_vars

\* a second-card flip has failed on a cell the other player holds: the first
\* card lies face-up without controller and is the pending move
C12_Witness ==
    \E k \in Calls :
        LET p == CallPlayer(k) IN
        /\ fc[k] = Returned("Controlled")
        /\ player_cards[p] = <<>>
        /\ previous_moves[p].set /\ ~previous_moves[p].matched
        /\ Len(previous_moves[p].cards) = 1
        /\ face_up[previous_moves[p].cards[1]]
        /\ controllers[previous_moves[p].cards[1]] = Nobody
        /\ \E pos \in Cells : controllers[pos] \notin {Nobody, p}

\* the pass of call k finds its target empty while the player holds a first card
OnEmptySecond(k) ==
    /\ Ran(k)
    /\ AsSecond(k)
    /\ Cleaned(k).cards[fc[k].pos] = None

\* the player of call k has a pending unmatched move of the single cell c
PendingOne(k, c) == previous_moves[fc[k].p] = Move(<<c>>, FALSE)

\* C13: a flip by a player who holds a first card on an empty cell fails with
\* NoCardError; the first cell stays face-up with its value and loses its
\* controller, and a pending unmatched move of that one cell is recorded.  The
\* player's next flip then turns that cell face-down if it is still occupied,
\* face-up and uncontrolled (it is face-up afterwards only if that very flip
\* takes it again as its first card).
C13_EmptySecondFails ==
    [][\A k \in Calls :
          /\ OnEmptySecond(k)
             => /\ fc'[k] = Returned("NoCard")
                /\ GaveUpFirst(Cleaned(k), fc[k].p, Cleaned(k).player_cards[fc[k].p][1])
          /\ \A c \in Cells :
                (/\ Ran(k)
                 /\ PendingOne(k, c)
                 /\ cards[c] # None /\ face_up[c] /\ controllers[c] = Nobody)
                => /\ ~Cleaned(k).face_up[c]
                   /\ ~Cleaned(k).previous_moves[fc[k].p].set
                   /\ fc[k].pos # c => ~face_up'[c]
                   /\ fc[k].pos = c => (face_up'[c] /\ controllers'[c] = fc[k].p)
      ]_vars

\* a flip on an empty cell has failed and left the first card face-up, without
\* controller, as the pending move
C13_Witness ==
    \E k \in Calls :
        LET p == CallPlayer(k) IN
        /\ fc[k] = Returned("NoCard")
        /\ player_cards[p] = <<>>
        /\ previous_moves[p].set /\ ~previous_moves[p].matched
        /\ Len(previous_moves[p].cards) = 1
        /\ face_up[previous_moves[p].cards[1]]
        /\ controllers[previous_moves[p].cards[1]] = Nobody

\* ---- lazy cleanup of the Multiplayer_Game-master board -----------------
\* the line of cell pos in the board state rendered for player q
Rendered(b, q, pos) == get_board_state(b, q)[pos[1] * columns + pos[2] + 2]

\* C14: the next flip of a player with a matched pending move first removes
\* both matched cells: they are empty, face-down, without controller and out
\* of the player's list before the flip is evaluated, so it is evaluated as a
\* first-card flip; afterwards both cells are rendered "none" and, when the
\* flip succeeds, its cell is rendered "my <value>" for the player.
C14_MatchedPairRemoved ==
    [][\A k \in Calls : \A x, y \in Cells :
          (Ran(k) /\ previous_moves[fc[k].p] = Move(<<x, y>>, TRUE))
          => LET p == fc[k].p
                 b == Cleaned(k)
             IN  /\ \A c \in {x, y} :
                       /\ b.cards[c] = None /\ ~b.face_up[c] /\ b.controllers[c] = Nobody
                       /\ cards'[c] = None /\ ~face_up'[c] /\ controllers'[c] = Nobody
                       /\ ~InSeq(player_cards'[p], c)
                       /\ \A q \in Players : Rendered(Board, q, c)' = "none"
                 /\ b.player_cards[p] = <<>>
                 /\ ~b.previous_moves[p].set
                 /\ AsFirst(k)
                 /\ fc[k].pos \in {x, y} => fc'[k] = Returned("NoCard")
                 /\ fc'[k] = Returned("ok")
                       => /\ player_cards'[p] = <<fc[k].pos>>
                          /\ \A q \in Players, c \in Cells :
                                (q = p /\ c = fc[k].pos)
                                => Rendered(Board, q, c)' = "my " \o cards[c]
      ]_vars

\* after a match a player has flipped a new first card: the pair is gone and
\* the player controls the new card alone
C14_Witness ==
    \E k \in Calls : \E x, y \in Cells :
        /\ x # y
        /\ cards[x] = None /\ cards[y] = None
        /\ fc[k] = Returned("ok")
        /\ Len(player_cards[CallPlayer(k)]) = 1
        /\ ~previous_moves[CallPlayer(k)].set
        /\ \A q \in Players \ {CallPlayer(k)} :
              player_cards[q] = <<>> /\ ~previous_moves[q].set
        /\ Cardinality({c \in Cells : cards[c] = None}) = 2

\* C15: the next flip of a player with an unmatched pending move turns every
\* recorded cell that is still occupied, face-up and uncontrolled face-down
\* before the flip is evaluated (after the flip the cell is face-up only if this
\* flip targets it); a recorded cell another player controls stays face-up with
\* that controller and its value; a recorded cell that was removed stays
\* removed; the pending move is cleared in every case.
C15_UnmatchedTurnedDown ==
    [][\A k \in Calls :
          (Ran(k) /\ previous_moves[fc[k].p].set /\ ~previous_moves[fc[k].p].matched)
          => LET p == fc[k].p
                 b == Cleaned(k)
                 recorded == {c \in Cells : InSeq(previous_moves[p].cards, c)}
             IN  /\ \A c \in recorded :
                       /\ (cards[c] # None /\ face_up[c] /\ controllers[c] = Nobody)
                          => /\ ~b.face_up[c]
                             /\ b.cards[c] = cards[c]
                             /\ b.controllers[c] = Nobody
                             /\ fc[k].pos # c => ~face_up'[c]
                       /\ controllers[c] # Nobody
                          => /\ b.face_up[c] /\ b.controllers[c] = controllers[c]
                             /\ face_up'[c]
                             /\ controllers'[c] = controllers[c]
                             /\ cards'[c] = cards[c]
                       /\ cards[c] = None
                          => /\ b.cards[c] = None /\ cards'[c] = None
                             /\ ~face_up'[c] /\ controllers'[c] = Nobody
                 /\ \A c \in Cells \ recorded : b.face_up[c] = face_up[c]
                 /\ b.cards = cards
                 /\ b.controllers = controllers
                 /\ ~b.previous_moves[p].set
                 /\ ~previous_moves'[p].set
      ]_vars

\* a flip is about to run for a player whose unmatched move records one cell
\* that the other player has taken and one that lies face-up without controller
C15_Witness ==
    \E k \in Calls : \E x, y \in Cells :
        /\ fc[k].st = "ready"
        /\ previous_moves[fc[k].p] = Move(<<x, y>>, FALSE)
        /\ controllers[x] \notin {Nobody, fc[k].p}
        /\ cards[y] # None /\ face_up[y] /\ controllers[y] = Nobody

\* ---- flips of the MemoryGame board, step by step ------------------------
\* the board as the pass of call k sees it once its lazy cleanup has run
MG_Cleaned(k) == MG_Cleanup(Board, fc[k].p)

\* C11: on the MemoryGame board, a second-card flip on an occupied cell that
\* nobody controls and whose value differs from the first card's gives up both
\* cells at once: both are face-up, neither has a controller, the player's
\* ownership list is empty and an unmatched move of the two cells is pending.
C11_MismatchRelinquishes ==
    [][\A k \in Calls :
          LET p == fc[k].p
              pos == fc[k].pos
              b == MG_Cleaned(k)
              first == b.player_cards[p][1]
          IN
          (/\ Ran(k)
           /\ Len(b.player_cards[p]) = 1
           /\ b.cards[pos] # None
           /\ MG_controller(b, pos) = Nobody
           /\ b.cards[pos] # b.cards[first])
          => /\ face_up'[first] /\ face_up'[pos]
             /\ controllers'[first] \in {Nobody, Absent}
             /\ controllers'[pos] \in {Nobody, Absent}
             /\ player_cards'[p] = <<>>
             /\ previous_moves'[p] = Move(<<first, pos>>, FALSE)
      ]_vars

\* ---- coordinates outside the grid ---------------------------------------
\* the pass of call k leaves the board, the queues, the watchers and every
\* other call as they are
Untouched(k) ==
    /\ UNCHANGED <<cards, face_up, controllers, player_cards, previous_moves,
                   waiting_players, change_watchers, wc>>
    /\ \A j \in Calls \ {k} : fc'[j] = fc[j] /\ (Woken(j)' <=> Woken(j))

\* C16: on the Multiplayer_Game-master board a flip with a coordinate outside
\* the grid fails with the out-of-bounds error and touches nothing: the pending
\* move of the caller is not cleaned up, no cell, list, wait queue or watch set
\* changes, no waiter and no watcher is woken.
C16_OutOfBoundsTouchesNothing ==
    [][\A k \in Calls :
          (variant = "MP" /\ Ran(k) /\ ~InBounds(fc[k].pos))
          => (fc'[k] = Returned("OutOfBounds") /\ Untouched(k))
      ]_vars

\* a flip outside the grid has failed while its player has a pending move with
\* a face-up uncontrolled card, which a cleanup would have turned down, and
\* while a watcher is registered
C16_Witness ==
    \E k \in Calls :
        LET p == CallPlayer(k) IN
        /\ variant = "MP"
        /\ fc[k] = Returned("OutOfBounds")
        /\ previous_moves[p].set
        /\ \E i \in 1..Len(previous_moves[p].cards) :
              face_up[previous_moves[p].cards[i]]
              /\ controllers[previous_moves[p].cards[i]] = Nobody
        /\ change_watchers # <<>>

\* C17: on the MemoryGame board a flip with a coordinate outside the grid
\* fails with an out-of-bounds error and touches nothing: the cleanup of the
\* caller's pending move has not run, no cell, face flag, controller, list or
\* queue has changed.
C17_MG_OutOfBoundsTouchesNothing ==
    [][\A k \in Calls :
          (variant = "MG" /\ Ran(k) /\ ~InBounds(fc[k].pos))
          => (fc'[k] = Returned("IndexError") /\ Untouched(k))
      ]_vars

\* ---- watch of the Multiplayer_Game-master board -------------------------
\* boards b1 and b2 differ by a qualifying change: a face flag flipped, a cell
\* was removed or a value became a different string
Qualifying(b1, b2) ==
    \E pos \in Cells : b1.face_up[pos] # b2.face_up[pos] \/ b1.cards[pos] # b2.cards[pos]

\* this step makes a qualifying change: the board differs afterwards, or the
\* pass of a flip turned a card of its pending move face-down in its cleanup
\* (and then face-up again as its first card)
QualifyingStep ==
    \/ Qualifying(Board, Board')
    \/ \E k \in Calls : Ran(k) /\ InBounds(fc[k].pos) /\ Qualifying(Board, Cleaned(k))

\* watcher w is registered and its event is not set
Registered(w) == wc[w] = "watching" /\ InSeq(change_watchers, w)

\* C18: a watch call completes only after its event was set, and the event of
\* a registered watcher is set only in a step that makes a qualifying change;
\* a flip that fails without a change, a flip that takes control of a face-up
\* card, a flip that gives up control, and a map step that writes the values it
\* found leave every registered watcher registered.
C18_WatchNeedsChange ==
    [][\A w \in Watchers :
          /\ (Registered(w) /\ ~Registered(w)') => QualifyingStep
          /\ (wc[w] = "watching" /\ wc'[w] = "idle") => ~InSeq(change_watchers, w)
      ]_vars

\* a watcher is still registered although a flip has failed, a player has
\* given up a first card that lies face-up, another controls a card, and a
\* map call has completed
C18_Witness ==
    /\ Registered(1)
    /\ \E k \in Calls :
          /\ fc[k] = Returned("Controlled")
          /\ previous_moves[CallPlayer(k)].set
          /\ face_up[previous_moves[CallPlayer(k)].cards[1]]
    /\ \E pos \in Cells : controllers[pos] # Nobody
    /\ mc[1] = MapReturned("ok")

\* C19: every step that makes a qualifying change (a card turned face-up by a
\* first or second flip, turned face-down or removed by a cleanup, a value
\* changed by map) leaves the watch set empty, so it sets the event of every
\* watcher registered at that moment; and every watcher whose event is set
\* returns.
C19_ChangeResolvesAll ==
    /\ [][QualifyingStep => change_watchers' = <<>>]_vars
    /\ \A w \in Watchers :
          (wc[w] = "watching" /\ ~InSeq(change_watchers, w)) ~> (wc[w] = "idle")

\* one change has set the events of two watchers that had both registered
C19_Witness ==
    /\ \A w \in Watchers : wc[w] = "watching"
    /\ change_watchers = <<>>
    /\ Cardinality(Watchers) >= 2

\* ---- what map computes --------------------------------------------------
\* C20: with no other map call running, when map(f) returns, every cell that
\* was occupied when the call started and has not been removed holds f(v), v
\* being the value it held at the start: f is applied to each cell once, also
\* when f swaps two values of the board or maps one onto the other.
C20_MapAppliesOnce ==
    [][\A m \in {1} :
          (mc[m].st = "transform" /\ mc'[m].st = "idle")
          => \A pos \in Cells :
                (mc[m].snap[pos] # None /\ cards'[pos] # None)
                => cards'[pos] = mc[m].f[mc[m].snap[pos]]
      ]_vars

\* a map call has returned and every card of the board holds the other value:
\* the transform that swaps the two values was applied once to each cell
C20_Witness ==
    /\ mc[1] = MapReturned("ok")
    /\ \A pos \in Cells : cards[pos] \in Values \ {InitialCard(pos, columns)}
    /\ \E pos \in Cells : face_up[pos]

\* ---- what map leaves alone ----------------------------------------------
\* the line of cell pos in the board state that either board renders for q
Line(b, q, pos) ==
    (IF variant = "MP" THEN get_board_state(b, q)
                       ELSE MG_get_board_state(b, q))[pos[1] * columns + pos[2] + 2]

\* C21: a step of a map call changes no face-up flag, no controller, no
\* ownership list, no pending move and no wait queue, and empties no cell: a
\* cell rendered "none", "down", "my ..." or "up ..." for a player is rendered
\* the same way afterwards, with the value the cell then holds.
C21_MapKeepsFaceAndControl ==
    [][mc' # mc
       => /\ UNCHANGED <<face_up, controllers, player_cards, previous_moves,
                         waiting_players>>
          /\ \A pos \in Cells : (cards[pos] = None) <=> (cards'[pos] = None)
          /\ \A q \in Players, pos \in Cells :
                Line(Board, q, pos)' =
                   (IF Line(Board, q, pos) \in {"none", "down"}
                    THEN Line(Board, q, pos)
                    ELSE IF Line(Board, q, pos) = "my " \o cards[pos]
                    THEN "my " \o cards'[pos]
                    ELSE "up " \o cards'[pos])
      ]_vars

\* a map call has returned after changing the value of a card that a player
\* controls and of a card that lies face-down
C21_Witness ==
    /\ mc[1] = MapReturned("ok")
    /\ \E pos \in Cells :
          /\ face_up[pos] /\ controllers[pos] = 1
          /\ cards[pos] \notin {None, InitialCard(pos, columns)}
    /\ \E pos \in Cells :
          ~face_up[pos] /\ cards[pos] \notin {None, InitialCard(pos, columns)}

\* ---- who holds the board lock -------------------------------------------
\* C22: a map call that awaits its transform does not hold the board lock:
\* every flip that is ready to run, every blocked flip that was woken, and every
\* look can take its step in that state, without a step of the map call.
C22_MapWaitsWithoutLock ==
    \A m \in Maps :
        mc[m].st = "transform"
        => /\ <<"map", m>> \notin LockHolders
           /\ \A k \in Calls : (fc[k].st = "ready" \/ Woken(k)) => ENABLED FlipRun(k)
           /\ \A q \in Players : ENABLED Look(q)

\* while a map call awaits its transform, a flip that had blocked on a
\* controlled cell has been woken and another flip is ready to run
C22_Witness ==
    /\ mc[1].st = "transform"
    /\ \E k, j \in Calls : k # j /\ Woken(k) /\ fc[j].st = "ready"

\* ---- cancellation --------------------------------------------------------
\* C23: no registry holds a token whose requester is no longer waiting: every
\* token in a cell's wait queue belongs to a flip suspended on that cell, and
\* every token in the watch set belongs to a suspended watch -- also after the
\* caller of a blocked flip or watch has cancelled it.
C23_CancelDeregisters ==
    /\ \A pos \in Cells : \A i \in 1..Len(waiting_players[pos]) :
          LET t == waiting_players[pos][i]
          IN t \in Calls /\ fc[t].st = "waiting" /\ fc[t].pos = pos
    /\ \A i \in 1..Len(change_watchers) :
          change_watchers[i] \in Watchers /\ wc[change_watchers[i]] = "watching"

\* ---- look and the rendering ----------------------------------------------
\* the text of the last look is what its player would be shown now
Fresh == lk.p # Nobody /\ lk.text = look(Board, lk.p).text

\* C24: a look changes nothing but the text handed to its caller, that text
\* renders the board as it is; steps that change no card, face or controller
\* change no player's text; so a look of the player of the last look, with the
\* board still showing what that look returned, returns the same text again.
C24_LookIsIdempotent ==
    [][/\ lk' # lk
          => /\ UNCHANGED <<cards, face_up, controllers, player_cards, previous_moves,
                            waiting_players, change_watchers, map_locks, fc, wc, mc>>
             /\ \A q \in Players : lk'.p = q => lk'.text = look(Board, q).text
             /\ (Fresh /\ lk'.p = lk.p) => lk'.text = lk.text
       /\ UNCHANGED <<cards, face_up, controllers>>
          => \A q \in Players : look(Board, q).text' = look(Board, q).text
      ]_vars

\* a player with a pending unmatched move has looked twice running and got
\* the same text, which shows a card of its own and a card it does not control
C24_Witness ==
    /\ lk.n = 2
    /\ Fresh
    /\ previous_moves[lk.p] # NoMove
    /\ \E i, j \in 2..Len(lk.text) : \E v, u \in Values :
          lk.text[i] = "my " \o v /\ lk.text[j] = "up " \o u

\* C25: the text for player q has the dimensions and then one line per cell
\* in row-major order; the line of a cell is "none" iff the cell is empty,
\* "down" iff it is occupied and face-down, "my <value>" iff it is face-up and
\* controlled by q, and "up <value>" iff it is face-up and controlled by
\* another player or by nobody.
C25_RenderByCell ==
    \A q \in Players :
        LET text == look(Board, q).text IN
        /\ Len(text) = rows * columns + 1
        /\ text[1] = ToString(rows) \o "x" \o ToString(columns)
        /\ \A pos \in Cells :
              LET line == text[pos[1] * columns + pos[2] + 2]
                  controller == IF variant = "MP" THEN controllers[pos]
                                                  ELSE MG_controller(Board, pos)
              IN
              /\ line = "none" <=> cards[pos] = None
              /\ line = "down" <=> (cards[pos] # None /\ ~face_up[pos])
              /\ line = "my " \o cards[pos] <=> (face_up[pos] /\ controller = q)
              /\ line = "up " \o cards[pos] <=> (face_up[pos] /\ controller # q)

\* a look returned a text with a face-down card, a card of the viewer and a
\* card that another player controls
C25_Witness ==
    /\ lk.p # Nobody
    /\ \E a, b, c \in Cells :
          /\ lk.text[a[1] * columns + a[2] + 2] = "down"
          /\ lk.text[b[1] * columns + b[2] + 2] = "my " \o cards[b]
          /\ lk.text[c[1] * columns + c[2] + 2] = "up " \o cards[c]
          /\ controllers[c] \in Players \ {lk.p}

\* ---- the existence check after the cleanup --------------------------------
\* C26: a pass of flip whose target cell is empty once the caller's lazy
\* cleanup has run -- it was empty before, or the cleanup has just removed it --
\* fails with "No card at position", and the caller then controls at most one
\* cell.
C26_EmptyAfterCleanupFails ==
    [][\A k \in Calls : \A q \in Players :
          (/\ Ran(k)
           /\ q = fc[k].p
           /\ InBounds(fc[k].pos)
           /\ Cleaned(k).cards[fc[k].pos] = None)
          => /\ fc'[k] = Returned("NoCard")
             /\ Len(player_cards'[q]) <= 1
      ]_vars

\* a player's flip failed with "No card at position" right after its own cleanup
\* removed its matched pair: the other player has not flipped at all, and the
\* caller has no pending move and controls nothing
C26_Witness ==
    \E k, j \in Calls :
        /\ k # j
        /\ fc[k].res = "NoCard"
        /\ fc[j] = Returned("none")
        /\ previous_moves[CallPlayer(k)] = NoMove
        /\ player_cards[CallPlayer(k)] = <<>>
        /\ Cardinality({pos \in Cells : cards[pos] = None}) = 2

\* ---- construction --------------------------------------------------------
\* the grid is malformed for the declared dimensions
Malformed(r, c, grid) ==
    \/ r <= 0 \/ c <= 0
    \/ Len(grid) # r
    \/ \E i \in 1..Len(grid) : Len(grid[i]) # c
    \/ \E i \in 1..Len(grid) : \E j \in 1..Len(grid[i]) :
          \/ grid[i][j] = <<>>
          \/ \E n \in 1..Len(grid[i][j]) : grid[i][j][n] = " "

\* C27: constructing a Board fails whenever rows or columns is not positive,
\* the number of rows or the length of a row disagrees with the dimensions, or a
\* card value is empty or contains whitespace.
C27_MalformedBoardRejected ==
    (ctor.res # "none" /\ Malformed(ctor.rows, ctor.columns, ctor.cards))
    => ctor.res = "ValueError"

\* ---- waiting outside the lock ---------------------------------------------
\* C28: a flip suspended on its wait token and a suspended watch do not hold
\* the board lock: in every such state each flip that is ready or woken can
\* take its pass, and the pass of a flip on a cell that no other player
\* controls returns to its caller.
C28_WaitsOutsideLock ==
    /\ [](/\ \A k \in Calls : fc[k].st = "waiting" => <<"flip", k>> \notin LockHolders
          /\ \A w \in Watchers : wc[w] = "watching" => <<"watch", w>> \notin LockHolders
          /\ (\/ \E k \in Calls : fc[k].st = "waiting"
              \/ \E w \in Watchers : wc[w] = "watching")
             => \A j \in Calls : Running(j) => ENABLED FlipRun(j))
    /\ [][\A j \in Calls :
             (/\ Ran(j)
              /\ \/ \E k \in Calls \ {j} : fc[k].st = "waiting"
                 \/ \E w \in Watchers : wc[w] = "watching"
              /\ controllers[fc[j].pos] \in {Nobody, fc[j].p})
             => fc'[j].st = "idle"
         ]_vars

\* a flip is blocked on a controlled cell and a watch is suspended while the
\* flip of another player on another cell is about to run
C28_Witness ==
    \E k, j \in Calls :
        /\ fc[k].st = "waiting" /\ ~Woken(k)
        /\ wc[1] = "watching"
        /\ Running(j)
        /\ fc[j].p # fc[k].p
        /\ fc[j].pos # fc[k].pos

\* ---- the value locks of map ------------------------------------------------
\* C29: a map call takes the lock of a value while it does not hold the board
\* lock, and has released it when it takes the board lock again to write the
\* value back: the write-back of a call starts in a state where the call holds
\* no value lock.
C29_ValueLockReleasedBeforeWriteBack ==
    [][\A m \in Maps :
          /\ (mc[m].st = "acquire" /\ mc'[m].st = "transform")
             => <<"map", m>> \notin LockHolders
          /\ (mc[m].st = "transform" /\ mc'[m] # mc[m])
             => \A v \in Values : map_locks[v] # m
      ]_vars

\* the value that map call m is processing
Current(m) == GroupKeys(mc[m].snap)[mc[m].idx]

C31_TokensFollowController ==
    /\ [](\A pos \in Cells : \A i \in 1..Len(waiting_players[pos]) :
             LET t == waiting_players[pos][i] IN
             /\ fc[t].st = "waiting" /\ fc[t].pos = pos
             /\ cards[pos] # None
             /\ controllers[pos] \in Players \ {fc[t].p})
    /\ [][\A pos \in Cells :
             (\/ controllers'[pos] # controllers[pos]
              \/ (cards[pos] # None /\ cards'[pos] = None))
             => waiting_players'[pos] = <<>>
         ]_vars

\* a flip that was blocked on a controlled cell has been woken by the
\* controller giving the cell up, and the cell is still on the board
C31_Witness ==
    \E k \in Calls :
        /\ Woken(k)
        /\ cards[fc[k].pos] # None
        /\ controllers[fc[k].pos] = Nobody

\* ---- the errors of flip --------------------------------------------------
\* C35: whoever calls and however the calls interleave, a pass of flip finds
\* the caller in control of no cell or of one cell once the lazy cleanup has
\* run, and a flip returns normally or fails with "No card", "controlled by a
\* player" or "out of bounds": never with "Invalid state" or a failed assertion.
C35_FlipErrorsAreTheThree ==
    /\ [](\A k \in Calls :
             /\ Running(k) => Len(Cleaned(k).player_cards[fc[k].p]) \in {0, 1}
             /\ fc[k].res \in {"none", "ok", "NoCard", "Controlled", "OutOfBounds"})
    /\ [][\A k \in Calls : Ran(k) => fc'[k].res \notin {"Invalid", "AssertionError"}]_vars

\* two flips of one player are in flight at once: one is suspended on a cell of
\* another player while the other has taken a first card
C35_Witness ==
    \E k, j \in Calls :
        /\ k # j
        /\ fc[k].st = "waiting"
        /\ fc[j].res = "ok"
        /\ player_cards[fc[k].p] # <<>>

\* ---- several requesters of one cell ---------------------------------------
\* C32: a requester woken from its wait on a cell that is still on the board
\* evaluates its flip again: if nobody controls the cell it takes control and
\* returns, and if another player controls it, it registers a new wait token
\* and is suspended again, changing nothing else; once the controller has given
\* the cell up and every requester is awake, one of them returns successfully.
C32_WokenRequestersReevaluate ==
    /\ [][\A k \in Requesters : \A q \in Players \cup Contenders : \A pos \in Cells :
             (/\ Woken(k) /\ Ran(k)
              /\ q = fc[k].p /\ pos = fc[k].pos
              /\ player_cards[q] = <<>>
              /\ cards[pos] # None)
             => /\ Cleaned(k).controllers[pos] = Nobody
                   => (fc'[k] = Returned("ok") /\ controllers'[pos] = q)
                /\ Cleaned(k).controllers[pos] \notin {Nobody, q}
                   => /\ fc'[k] = fc[k]
                      /\ waiting_players' =
                            [waiting_players EXCEPT ![pos] = Append(@, k)]
                      /\ UNCHANGED <<cards, face_up, controllers, player_cards,
                                     previous_moves, change_watchers>>
         ]_vars
    /\ ((\A k \in Requesters : Woken(k)) /\ cards[script.x] # None)
          ~> (\E k \in Requesters : fc[k].res = "ok")

\* one requester has taken the cell that player 1 gave up, and another, woken
\* by player 1, waits on the cell again
C32_Witness ==
    \E k, j \in Requesters :
        /\ script.n >= 2
        /\ fc[k] = Returned("ok")
        /\ controllers[script.x] = k
        /\ fc[j].st = "waiting"
        /\ InSeq(waiting_players[script.x], j)

\* ---- the transform of a map call -----------------------------------------
\* C33: every invocation of the transform by a map call is for a value of
\* the call's snapshot that the call has not asked before, whatever became of
\* the cells that held it; and when the call returns it has asked exactly the
\* values of its snapshot.
C33_TransformOncePerValue ==
    [][\A m \in Maps : \A v \in Values :
          (mc[m].st = "transform" /\ mc'[m] # mc[m] /\ v = Current(m))
          => /\ mc[m].f[v] = None
             /\ \E pos \in Cells : mc[m].snap[pos] = v
             /\ mc'[m].st # "idle"
                => /\ mc'[m].f[v] # None
                   /\ \A u \in Values \ {v} : mc'[m].f[u] = mc[m].f[u]
             /\ mc'[m].st = "idle"
                => \A u \in Values :
                      (\E pos \in Cells : mc[m].snap[pos] = u)
                      <=> (u = v \/ mc[m].f[u] # None)
      ]_vars

\* a map call awaits the transform of a value that two cells held in its
\* snapshot and that no cell holds any more
C33_Witness ==
    \E m \in Maps :
        /\ mc[m].st = "transform"
        /\ Cardinality({pos \in Cells : mc[m].snap[pos] = Current(m)}) = 2
        /\ \A pos \in Cells : cards[pos] # Current(m)

\* C34: the write-back of a map call for value v of its snapshot changes
\* only cells that were in the group of v and hold v when it runs: a cell
\* outside the group, a removed cell and a cell that holds another value by now
\* keep what they hold; the cells of the group that still hold v get one and
\* the same value.
C34_WriteBackOnlyToGroup ==
    [][\A m \in Maps : \A v \in Values :
          (mc[m].st = "transform" /\ mc'[m] # mc[m] /\ v = Current(m))
          => /\ \A pos \in Cells :
                   (mc[m].snap[pos] # v \/ cards[pos] # v) => cards'[pos] = cards[pos]
             /\ \A pos, other \in Cells :
                   (/\ mc[m].snap[pos] = v /\ cards[pos] = v
                    /\ mc[m].snap[other] = v /\ cards[other] = v)
                   => (cards'[pos] = cards'[other] /\ cards'[pos] # None)
      ]_vars

\* a map call awaits the transform of v while a cell of the group of v has
\* been removed and a cell outside the group holds v, written by another call
C34_Witness ==
    \E m \in Maps : \E gone, out \in Cells :
        /\ mc[m].st = "transform"
        /\ mc[m].snap[gone] = Current(m) /\ cards[gone] = None
        /\ mc[m].snap[out] # Current(m) /\ cards[out] = Current(m)

C36_MG_CheckRepNeverFails ==
    /\ \A k \in Calls : fc[k].res # "AssertionError"
    /\ \A m \in Maps : mc[m].res # "AssertionError"

\* ---- suspended flips ------------------------------------------------------
\* C38: with one flip in flight per player, the requester of a suspended flip
\* controls no cell, so the cell a suspended flip waits for is never controlled
\* by a player whose own flip is suspended: blocked players form no cycle.
C38_SuspendedControlsNothing ==
    \A k \in Calls :
        fc[k].st = "waiting" =>
            /\ player_cards[fc[k].p] = <<>>
            /\ \A pos \in Cells : controllers[pos] # fc[k].p
            /\ \A j \in Calls : fc[j].st = "waiting" => controllers[fc[k].pos] # fc[j].p

\* a flip is suspended on a cell whose controller has a second-card flip in
\* flight
C38_Witness ==
    \E k, j \in Calls :
        /\ fc[k].st = "waiting" /\ ~Woken(k)
        /\ fc[j].st = "ready"
        /\ controllers[fc[k].pos] = fc[j].p
        /\ Len(player_cards[fc[j].p]) = 1

\* ---- flip on an empty cell -------------------------------------------------
\* the call k is about to flip an empty cell for a player who controls no cell
\* and has no pending move
OnEmptyCell(k) ==
    /\ fc[k].st = "ready"
    /\ InBounds(fc[k].pos)
    /\ cards[fc[k].pos] = None
    /\ player_cards[fc[k].p] = <<>>
    /\ previous_moves[fc[k].p] = NoMove

\* C40: a flip on an empty cell by a player who controls no cell and has no
\* pending move fails with the no-card error and leaves the grid, the faces,
\* the controllers, the ownership lists, the pending moves, the wait queues and
\* the watch set unchanged: no watcher and no waiter is woken.
C40_EmptyCellFlipChangesNothing ==
    [][\A k \in Calls :
          (OnEmptyCell(k) /\ Ran(k)) =>
              /\ fc'[k] = Returned("NoCard")
              /\ UNCHANGED <<cards, face_up, controllers, player_cards, previous_moves,
                             waiting_players, change_watchers, wc>>
              /\ \A j \in Calls \ {k} : fc'[j] = fc[j]
      ]_vars

\* such a flip is about to run while a watcher is registered and another flip
\* is queued on a controlled cell
C40_Witness ==
    \E k \in Calls :
        /\ OnEmptyCell(k)
        /\ change_watchers # <<>>
        /\ \E pos \in Cells : waiting_players[pos] # <<>>

\* ---- cleanup is driven by the owner's next flip ------------------------------
\* this step is a pass of a flip of player p
OwnFlip(p) == \E k \in Calls : fc[k].p = p /\ Running(k) /\ fc'[k] # fc[k]

\* C37: the pending move of a player changes only in a flip of that player; a
\* cell controlled by a player keeps that controller, stays on the board and
\* stays face up through every step that is not a flip of that player (another
\* player's flip, watch, map), and a look served in any state leaves the whole
\* engine state as it is; the cells of a matched move stay face up and
\* controlled by the matcher for as long as the move is pending.
C37_CleanupOnlyByOwnersFlip ==
    /\ [](\A p \in Players :
             /\ look(Board, p).b = Board
             /\ (previous_moves[p].set /\ previous_moves[p].matched) =>
                    \A i \in 1..Len(previous_moves[p].cards) :
                        LET pos == previous_moves[p].cards[i] IN
                        cards[pos] # None /\ face_up[pos] /\ controllers[pos] = p)
    /\ [][\A p \in Players :
             ~OwnFlip(p) =>
                 /\ previous_moves'[p] = previous_moves[p]
                 /\ player_cards'[p] = player_cards[p]
                 /\ \A pos \in Cells :
                        controllers[pos] = p =>
                            /\ controllers'[pos] = p
                            /\ cards'[pos] # None
                            /\ face_up[pos] /\ face_up'[pos]
         ]_vars

\* a player holds a matched pair while another player's flip is blocked on one
\* of its cells, a watcher is registered and a map call has written back its
\* first group
C37_Witness ==
    \E p \in Players : \E k \in Calls :
        /\ previous_moves[p].set /\ previous_moves[p].matched
        /\ fc[k].st = "waiting" /\ fc[k].p # p
        /\ InSeq(previous_moves[p].cards, fc[k].pos)
        /\ wc[1] = "watching"
        /\ mc[1].st # "idle" /\ mc[1].idx > 1


====
